---- MODULE Spec2Model ----
(***************************************************************************)
(* Model of one WhatsApp account of the bot: the connection lifecycle of   *)
(* class WhatsAppAccount (src/whatsapp/accounts/account.js, QR variant and *)
(* pairing-code variant) and the group-join queue pass processGroupQueue   *)
(* (src/unnamed/part_002) that every 'open' update starts; and the         *)
(* credential store, class AuthStateManager (src/whatsapp/scraper.js).     *)
(*                                                                         *)
(* JavaScript runs a handler to completion up to its next await, so every  *)
(* action below is one such run: from a call or an event to the next       *)
(* suspension point. The connection provider (Baileys socket), the         *)
(* operator and the clock are the environment.                             *)
(***************************************************************************)
EXTENDS Integers, Sequences, FiniteSets, TLC

VARIABLES
  variant,           \* "qr" (account.js 27-191) or "pairing" (account.js 214-382)
  sock,              \* this.sock: 0 is null, otherwise the id of a socket
  connected,         \* this.connected
  isLinking,         \* this.isLinking (QR variant)
  pairingRequested,  \* this._pairingRequested (pairing variant)
  socks,             \* the sockets made by makeWASocket, by id 1..Len(socks)
  calls,             \* connect calls suspended at await useMultiFileAuthState
  logoutOn,          \* logout() suspended at await this.sock.logout(): the socket, 0 if none
  queueFile,         \* groups/queue.json: the links
  reportFile,        \* groups/report.json: joined, pending, failed
  passes,            \* processGroupQueue calls, by the socket whose 'open' made the call
  hist               \* history of the run, read by the properties only:
                     \*   phase     "INIT", "CONNECTING", "OPEN", "CLOSED": the last of
                     \*             connect call or socket made, open, close
                     \*   enqueued  the links enqueued so far, nEnq their number
                     \*   lastClose the reason of the latest close update
                     \*   loggedOutClose  a logged-out close since the operator's
                     \*             last connect call
                     \*   loggedOut logout() has released the connection

\* AuthStateManager, src/whatsapp/scraper.js 127-727
VARIABLES
  state,             \* this.state: an envelope, NullState for null
  created,           \* this.sessionInfo.created: a time in seconds, -1 for null
  encryptionKey,     \* this.encryptionKey: "none" for null
  sessionFile,       \* the text of the file at sessionFilePath
  backups,           \* the names of the files session_backup_* in backupDir
  archives,          \* the texts of the files session_archived_* in sessionDir
  saveCount,         \* the number in the file .save_count, -1 if there is none
  tasks,             \* the calls of async methods that are suspended at an await
  autoSaves,         \* the timers of updateSessionInfo that have not fired yet
  now,               \* the time in seconds
  made,              \* the number of envelopes createNewAuthState has made
  ops,               \* the number of calls made from outside so far
  result             \* what the latest call that returned has returned

\* The job table of src/unnamed/part_008 and the link files of
\* src/whatsapp/scraper.js 44-107 with uniqueLinks of src/utils/delay.js
VARIABLES
  groups,            \* table groups: the row of each invite link that has one
  dbCall,            \* the latest call on the table: its name, its Date.now()
                     \* and its timeoutMs, read by the properties and as clock
  existing,          \* uniqueLinks: the argument existing
  incoming,          \* uniqueLinks: the argument incoming
  merged,            \* uniqueLinks: n the merges made, out the latest return value
  linkFiles,         \* the files <account>/links/<type>.json that exist, by name
  saved              \* the latest saveLinks call: its account and its batch

\* extractLinks of src/whatsapp/scraper.js 61-65, handleViewLinks of
\* src/telegram/handlers/links.js 72-91
VARIABLES
  extracted,         \* extractLinks: text its argument, n the calls made with
                     \* it, out the latest return value
  shown,             \* the latest message of handleViewLinks: the account, the
                     \* count of each type and the total
  wa,                \* connectWhatsApp of src/unnamed/part_004: the settings
                     \* config.safety, the stored session, the calls suspended
                     \* at their awaits, the sockets made and the latest close
  ar,                \* handleAutoReply of src/src/whatsapp/actions/auto.reply.js:
                     \* RuntimeState.autoReply and repliedUsers, the calls of
                     \* the handler, and the replies sent so far
  reg                \* src/whatsapp/accounts/registry.js: the Map accounts, the
                     \* file accounts.json, Date.now(), the connection of each
                     \* account object, and the latest call with what it returned

acctVars == <<variant, sock, connected, isLinking, pairingRequested,
              socks, calls, logoutOn, queueFile, reportFile, passes, hist>>

authVars == <<state, created, encryptionKey, sessionFile, backups, archives,
              saveCount, tasks, autoSaves, now, made, ops, result>>

dataVars == <<groups, dbCall, existing, incoming, merged, linkFiles, saved>>

restVars == <<extracted, shown, wa, ar, reg>>

vars == <<acctVars, authVars, dataVars, restVars>>

----------------------------------------------------------------------------
(* Bounds of the model. *)

\* sockets made in one run of the connection lifecycle
MaxSocks == 2
\* sockets made in one run of the group-join queue
MaxQueueSocks == 2
\* links the operator enqueues in one run
MaxEnq == 2
\* calls of saveSessionToFile by events and timers that run together
MaxSavers == 1
\* calls of loadAuthState and saveSessionToFile from outside in one run of
\* loading
MaxAuthCalls == 2
\* calls of loadAuthState, clearAuthState and saveSessionToFile from outside
\* in one run of saving, backing up and archiving
MaxStoreCalls == 2
\* the latest reading of the clock in one run of the job table
MaxTime == 2
\* elements of an array passed to uniqueLinks
MaxLen == 2
\* links of a batch passed to saveLinks
MaxBatch == 2
\* characters of a text passed to extractLinks
MaxText == 5
\* the sockets connectWhatsApp makes in a run
MaxWaSocks == 4
\* the messages handleAutoReply is called with in a run
MaxMsgs == 2
\* the milliseconds Date.now() goes through in a run of the registry
MaxMs == 2
\* the calls made on the registry in a run
MaxRegCalls == 3

----------------------------------------------------------------------------
(* Program constants. *)

RECONNECT_DELAY == 5000

JOIN_DELAY == 2 * 60 * 1000

\* this.maxBackups
maxBackups == 10

\* saveCount % 10 === 0
BACKUP_EVERY == 10

\* ageInDays > 30
MAX_AGE_DAYS == 30

\* 1000 * 60 * 60 * 24 ms, in seconds
DAY == 60 * 60 * 24

\* DisconnectReason.loggedOut and one other close reason
Reasons == {"loggedOut", "connectionLost"}

\* Links are character sequences. "H" stands for the text chat.whatsapp.com/ ,
\* "a" and "b" for characters of [A-Za-z0-9_-], "x" for any other character.
CodeChars == {"a", "b"}

GoodLink == <<"x", "H", "a", "b", "x">>

NoPathLink == <<"x", "H">>

NotALink == <<"x", "x">>

Links == {GoodLink, NotALink}

NoCode == <<>>

----------------------------------------------------------------------------
(* Helpers. *)

Min(S) == CHOOSE x \in S : \A y \in S : x <= y

Max(S) == CHOOSE x \in S : \A y \in S : x >= y

Remove(q, k) == [j \in 1..(Len(q) - 1) |-> IF j < k THEN q[j] ELSE q[j + 1]]

Range(q) == {q[j] : j \in DOMAIN q}

\* the maximal run of invite-code characters of link that starts at position p
RECURSIVE CodeRun(_, _)
CodeRun(link, p) ==
  IF p <= Len(link) /\ link[p] \in CodeChars
  THEN <<link[p]>> \o CodeRun(link, p + 1)
  ELSE <<>>

\* link.match(/chat\.whatsapp\.com\/([A-Za-z0-9_-]+)/): the leftmost match, its
\* group taken greedily; NoCode stands for null
extractInviteCode(link) ==
  LET starts == {p \in 1..Len(link) : link[p] = "H" /\ CodeRun(link, p + 1) # <<>>}
  IN  IF starts = {} THEN NoCode ELSE CodeRun(link, Min(starts) + 1)

\* { joined: [], pending: [], failed: [] }
EmptyReport == [joined |-> <<>>, pending |-> <<>>, failed |-> <<>>]

\* a report entry: link and jid or reason (the time stamp is left out)
Entry(link, info) == [link |-> link, info |-> info]

\* a socket as makeWASocket returns it, its handlers attached by the caller.
\*   st      "connecting", "open", "closed"; "gone" after the process died
\*   reg     the handle registerWhatsAppEvents got in its 'open' handler
\*           (0 is null), -1 before it
\*   reqs    requestPairingCode calls made on this socket: "none", "one",
\*           "more"
\*   busy    requestPairingCode calls on this socket not yet settled
\*   timer   remaining ms of the setTimeout of its close handler, -1 if none
\*   sinceClose  ms since its close update while its timer is pending
NewSocket ==
  [st |-> "connecting", reg |-> -1, reqs |-> "none", busy |-> 0,
   timer |-> -1, sinceClose |-> 0]

\* a processGroupQueue call: pc is "idle" (not called), "skipped" (returned
\* before the loop), "join" (awaiting groupAcceptInvite for links[i]),
\* "delay" (awaiting delay(JOIN_DELAY) after links[i]), "done", or "dead";
\* start is the report the pass loaded, read by the properties only
IdlePass ==
  [pc |-> "idle", h |-> 0, links |-> <<>>, i |-> 0, report |-> EmptyReport,
   wait |-> -1, start |-> EmptyReport]

SockIds == 1..Len(socks)

Live(s) == socks[s].st \in {"connecting", "open"}

PendingTimers == {s \in SockIds : socks[s].timer >= 0}

\* sockets made or being made
Budget == Len(socks) + Len(calls)

Running == {p \in SockIds : passes[p].pc \in {"join", "delay"}}

InJoin == {p \in SockIds : passes[p].pc = "join"}

----------------------------------------------------------------------------
(* processGroupQueue, src/unnamed/part_002. *)

\* the for-loop passing over an item without invite code without pushing it
\* to failed
RECURSIVE ScanSilent(_, _, _)
ScanSilent(links, i, report) ==
  IF i > Len(links)
  THEN [pc |-> "done", i |-> i, report |-> report]
  ELSE IF extractInviteCode(links[i]) = NoCode
       THEN ScanSilent(links, i + 1, report)
       ELSE [pc |-> "join", i |-> i, report |-> report]

\* the for-loop from item i on, up to its next await or its end: an item without
\* invite code is pushed to failed and the loop continues at once
RECURSIVE Scan(_, _, _)
Scan(links, i, report) ==
  IF i > Len(links)
  THEN [pc |-> "done", i |-> i, report |-> report]
  ELSE IF extractInviteCode(links[i]) = NoCode
       THEN Scan(links, i + 1,
                 [report EXCEPT !.failed =
                    Append(@, Entry(links[i], "Invalid invite link"))])
       ELSE [pc |-> "join", i |-> i, report |-> report]

\* what one synchronous run of the loop leaves: the pass (its locals are
\* dropped once it has returned), the report it holds, whether saveReport ran,
\* whether the queue file was cleared
Advance(h, links, i, report, start) ==
  LET r == Scan(links, i, report)
  IN  [pass |-> IF r.pc = "done"
                THEN [IdlePass EXCEPT !.pc = "done", !.h = h]
                ELSE [pc |-> r.pc, h |-> h, links |-> links, i |-> r.i,
                      report |-> r.report, wait |-> -1, start |-> start],
       report |-> r.report,
       saved |-> r.report # report,
       cleared |-> r.pc = "done"]

\* processGroupQueue writing a fresh report when it finds the queue empty
StartPassResets(h) ==
  IF h = 0 \/ Len(queueFile) = 0
  THEN [pass |-> [IdlePass EXCEPT !.pc = "skipped", !.h = h],
        report |-> EmptyReport, saved |-> TRUE, cleared |-> FALSE]
  ELSE Advance(h, queueFile, 1, reportFile, reportFile)

\* processGroupQueue(h, id) from its call to its first await or its return
StartPass(h) ==
  IF h = 0 \/ Len(queueFile) = 0
  THEN [pass |-> [IdlePass EXCEPT !.pc = "skipped", !.h = h],
        report |-> reportFile, saved |-> FALSE, cleared |-> FALSE]
  ELSE Advance(h, queueFile, 1, reportFile, reportFile)

\* the files after a synchronous run a of the loop
WriteFiles(a) ==
  /\ reportFile' = IF a.saved THEN a.report ELSE reportFile
  /\ queueFile' = IF a.cleared THEN <<>> ELSE queueFile

\* groupAcceptInvite settles for pass p: push to joined or to pending,
\* saveReport, then await delay(JOIN_DELAY)
JoinSettles(p, list, info) ==
  /\ passes[p].pc = "join"
  /\ LET ps == passes[p]
         rep == [ps.report EXCEPT ![list] = Append(@, Entry(ps.links[ps.i], info))]
     IN  /\ passes' = [passes EXCEPT ![p] =
                         [ps EXCEPT !.pc = "delay", !.report = rep, !.wait = JOIN_DELAY]]
         /\ reportFile' = rep
  /\ UNCHANGED <<restVars, dataVars, authVars, variant, sock, connected, isLinking, pairingRequested,
                 socks, calls, logoutOn, queueFile, hist>>

JoinResolves(p) ==
  /\ passes[p].pc = "join"
  /\ socks[passes[p].h].st = "open"
  /\ JoinSettles(p, "joined", "jid")

\* the catch pushing to failed instead of pending
JoinRejectsToFailed(p) == JoinSettles(p, "failed", "Pending approval")

JoinRejects(p) == JoinSettles(p, "pending", "Pending approval")

\* the loop going on with the item after the next one
DelayOverSkips(p) ==
  /\ passes[p].pc = "delay"
  /\ passes[p].wait = 0
  /\ LET ps == passes[p]
         a == Advance(ps.h, ps.links, ps.i + 2, ps.report, ps.start)
     IN  /\ passes' = [passes EXCEPT ![p] = a.pass]
         /\ WriteFiles(a)
  /\ UNCHANGED <<restVars, dataVars, authVars, variant, sock, connected, isLinking, pairingRequested,
                 socks, calls, logoutOn, hist>>

\* delay(JOIN_DELAY) of pass p is over: the loop goes on with the next item
DelayOver(p) ==
  /\ passes[p].pc = "delay"
  /\ passes[p].wait = 0
  /\ LET ps == passes[p]
         a == Advance(ps.h, ps.links, ps.i + 1, ps.report, ps.start)
     IN  /\ passes' = [passes EXCEPT ![p] = a.pass]
         /\ WriteFiles(a)
  /\ UNCHANGED <<restVars, dataVars, authVars, variant, sock, connected, isLinking, pairingRequested,
                 socks, calls, logoutOn, hist>>

\* the operator appends a link to the queue file
Enqueue(l) ==
  /\ hist.nEnq < MaxEnq
  /\ queueFile' = Append(queueFile, l)
  /\ hist' = [hist EXCEPT !.nEnq = @ + 1, !.enqueued = @ \cup {l}]
  /\ UNCHANGED <<restVars, dataVars, authVars, variant, sock, connected, isLinking, pairingRequested,
                 socks, calls, logoutOn, reportFile, passes>>

----------------------------------------------------------------------------
(* WhatsAppAccount, src/whatsapp/accounts/account.js. *)

\* connect() / connectWithPairing(phoneNumber) is called by the operator and
\* suspends at await useMultiFileAuthState
ConnectCall(cap) ==
  /\ Budget < cap
  /\ calls' = Append(calls, 0)
  /\ hist' = [hist EXCEPT !.phase = "CONNECTING", !.loggedOutClose = FALSE]
  /\ UNCHANGED <<restVars, dataVars, authVars, variant, sock, connected, isLinking, pairingRequested,
                 socks, logoutOn, queueFile, reportFile, passes>>

\* the call calls[k] goes on: makeWASocket, this.sock = the new socket, the
\* handlers of creds.update and connection.update are attached
ConnectResume(k, cap) ==
  /\ k \in DOMAIN calls
  /\ Len(socks) < cap
  /\ socks' = Append(socks, NewSocket)
  /\ passes' = Append(passes, IdlePass)
  /\ sock' = Len(socks) + 1
  /\ calls' = Remove(calls, k)
  /\ hist' = [hist EXCEPT !.phase = "CONNECTING"]
  /\ UNCHANGED <<restVars, dataVars, authVars, variant, connected, isLinking, pairingRequested,
                 logoutOn, queueFile, reportFile>>

\* connection.update { connection: 'connecting' } on socket s, pairing variant:
\* the handler sets the flag and suspends at await this.sock.requestPairingCode.
\* (With the flag set, or with this.sock null, where the TypeError is caught
\* and the flag reset, the handler changes nothing.)
ConnectingUpdate(s) ==
  /\ variant = "pairing"
  /\ socks[s].st = "connecting"
  /\ ~pairingRequested
  /\ sock # 0
  /\ pairingRequested' = TRUE
  /\ socks' = [socks EXCEPT ![sock].reqs = IF @ = "none" THEN "one" ELSE "more",
                            ![sock].busy = @ + 1]
  /\ UNCHANGED <<restVars, dataVars, authVars, variant, sock, connected, isLinking, calls, logoutOn,
                 queueFile, reportFile, passes, hist>>

\* requestPairingCode on socket h resolves (this.pairingCode = code)
PairingResolves(h) ==
  /\ socks[h].busy > 0
  /\ Live(h)
  /\ socks' = [socks EXCEPT ![h].busy = @ - 1]
  /\ UNCHANGED <<restVars, dataVars, authVars, variant, sock, connected, isLinking, pairingRequested, calls, logoutOn,
                 queueFile, reportFile, passes, hist>>

\* requestPairingCode on socket h throws: the catch resets the flag
PairingRejects(h) ==
  /\ socks[h].busy > 0
  /\ socks' = [socks EXCEPT ![h].busy = @ - 1]
  /\ pairingRequested' = FALSE
  /\ UNCHANGED <<restVars, dataVars, authVars, variant, sock, connected, isLinking, calls, logoutOn,
                 queueFile, reportFile, passes, hist>>

\* OpenUpdate without the call of processGroupQueue
OpenUpdateNoPass(s) ==
  /\ socks[s].st = "connecting"
  /\ socks' = [socks EXCEPT ![s].st = "open", ![s].reg = sock]
  /\ connected' = TRUE
  /\ isLinking' = IF variant = "qr" THEN FALSE ELSE isLinking
  /\ hist' = [hist EXCEPT !.phase = "OPEN"]
  /\ UNCHANGED <<restVars, dataVars, authVars, variant, sock, pairingRequested, calls, logoutOn, queueFile,
                 reportFile, passes>>

\* connection.update { connection: 'open' } on socket s: connected, then
\* registerWhatsAppEvents(this.sock, id) and processGroupQueue(this.sock, id),
\* the latter run up to its first await
OpenUpdate(s) ==
  /\ socks[s].st = "connecting"
  /\ socks' = [socks EXCEPT ![s].st = "open", ![s].reg = sock]
  /\ connected' = TRUE
  /\ isLinking' = IF variant = "qr" THEN FALSE ELSE isLinking
  /\ LET a == StartPass(sock)
     IN  /\ passes' = [passes EXCEPT ![s] = a.pass]
         /\ WriteFiles(a)
  /\ hist' = [hist EXCEPT !.phase = "OPEN"]
  /\ UNCHANGED <<restVars, dataVars, authVars, variant, sock, pairingRequested, calls, logoutOn>>

\* whether the close handler goes on to reconnect
Reconnects(r) ==
  /\ r # "loggedOut"
  /\ variant = "qr" => ~isLinking

\* CloseUpdate with the pairing variant reconnecting at once, as the QR
\* variant does, instead of after the delay
CloseUpdateAtOnce(s, r, cap) ==
  /\ Live(s)
  /\ Reconnects(r) => Budget + Cardinality(PendingTimers) < cap
  /\ connected' = FALSE
  /\ socks' = [socks EXCEPT ![s].st = "closed"]
  /\ calls' = IF Reconnects(r) THEN Append(calls, s) ELSE calls
  /\ hist' = [hist EXCEPT
                !.phase = IF Reconnects(r) THEN "CONNECTING" ELSE "CLOSED",
                !.lastClose = r,
                !.loggedOutClose = IF r = "loggedOut" THEN TRUE ELSE @]
  /\ UNCHANGED <<restVars, dataVars, authVars, variant, sock, isLinking, pairingRequested, logoutOn,
                 queueFile, reportFile, passes>>

\* connection.update { connection: 'close' } on socket s with reason r:
\* not connected; unless linking (QR) or logged out, the QR variant calls
\* reconnect() at once and the pairing variant sets a timer of 5 seconds
CloseUpdate(s, r, cap) ==
  /\ Live(s)
  /\ Reconnects(r) => Budget + Cardinality(PendingTimers) < cap
  /\ connected' = FALSE
  /\ socks' = [socks EXCEPT ![s].st = "closed",
                            ![s].timer = IF Reconnects(r) /\ variant = "pairing"
                                         THEN RECONNECT_DELAY ELSE -1]
  /\ calls' = IF Reconnects(r) /\ variant = "qr" THEN Append(calls, s) ELSE calls
  /\ hist' = [hist EXCEPT
                !.phase = IF Reconnects(r) /\ variant = "qr" THEN "CONNECTING" ELSE "CLOSED",
                !.lastClose = r,
                !.loggedOutClose = IF r = "loggedOut" THEN TRUE ELSE @]
  /\ UNCHANGED <<restVars, dataVars, authVars, variant, sock, isLinking, pairingRequested, logoutOn,
                 queueFile, reportFile, passes>>

\* the timer set by the close handler of socket s fires: the flag and the code
\* are reset and connectWithPairing(this.phoneNumber) is called
TimerFires(s) ==
  /\ socks[s].timer = 0
  /\ socks' = [socks EXCEPT ![s].timer = -1, ![s].sinceClose = 0]
  /\ pairingRequested' = FALSE
  /\ calls' = Append(calls, s)
  /\ hist' = [hist EXCEPT !.phase = "CONNECTING"]
  /\ UNCHANGED <<restVars, dataVars, authVars, variant, sock, connected, isLinking, logoutOn, queueFile, reportFile,
                 passes>>

\* logout() with this.sock set suspends at await this.sock.logout()
LogoutCall ==
  /\ sock # 0
  /\ logoutOn = 0
  /\ logoutOn' = sock
  /\ UNCHANGED <<restVars, dataVars, authVars, variant, sock, connected, isLinking, pairingRequested,
                 socks, calls, queueFile, reportFile, passes, hist>>

\* this.sock.logout() resolves: the provider has ended that socket as logged
\* out (its close handler ran and returned), then sock = null, connected = false
LogoutResolves ==
  /\ logoutOn # 0
  /\ Live(logoutOn)
  /\ socks' = [socks EXCEPT ![logoutOn].st = "closed"]
  /\ sock' = 0
  /\ connected' = FALSE
  /\ logoutOn' = 0
  /\ hist' = [hist EXCEPT !.phase = "CLOSED", !.lastClose = "loggedOut",
                          !.loggedOutClose = TRUE, !.loggedOut = TRUE]
  /\ UNCHANGED <<restVars, dataVars, authVars, variant, isLinking, pairingRequested, calls,
                 queueFile, reportFile, passes>>

\* this.sock.logout() throws: the catch logs and logout() returns
LogoutThrows ==
  /\ logoutOn # 0
  /\ logoutOn' = 0
  /\ UNCHANGED <<restVars, dataVars, authVars, variant, sock, connected, isLinking, pairingRequested,
                 socks, calls, queueFile, reportFile, passes, hist>>

----------------------------------------------------------------------------
(* The clock: setTimeout of the close handler and of delay(). *)

Waiting == {p \in SockIds : passes[p].pc = "delay"}

Remaining == {socks[s].timer : s \in PendingTimers} \cup {passes[p].wait : p \in Waiting}

\* time passes up to the next moment a timer is due; a due timer runs first
Tick ==
  /\ Remaining # {}
  /\ 0 \notin Remaining
  /\ LET d == Min(Remaining)
     IN  /\ socks' = [s \in SockIds |->
                        [socks[s] EXCEPT
                           !.timer = IF @ >= 0 THEN @ - d ELSE @,
                           !.sinceClose = IF socks[s].timer >= 0 THEN @ + d ELSE @]]
         /\ passes' = [p \in SockIds |->
                         [passes[p] EXCEPT !.wait = IF passes[p].pc = "delay"
                                                    THEN @ - d ELSE @]]
  /\ UNCHANGED <<restVars, dataVars, authVars, variant, sock, connected, isLinking, pairingRequested,
                 calls, logoutOn, queueFile, reportFile, hist>>

\* the process dies and is started again: restoreLinkedAccounts makes the
\* account anew; the files stay
Crash ==
  /\ \E s \in SockIds : socks[s].st # "gone"
  /\ sock' = 0
  /\ connected' = FALSE
  /\ isLinking' = TRUE
  /\ pairingRequested' = FALSE
  /\ socks' = [s \in SockIds |-> [NewSocket EXCEPT !.st = "gone"]]
  /\ passes' = [p \in SockIds |-> [IdlePass EXCEPT !.pc = "dead"]]
  /\ calls' = <<>>
  /\ logoutOn' = 0
  /\ hist' = [hist EXCEPT !.phase = "INIT", !.lastClose = "",
                          !.loggedOutClose = FALSE, !.loggedOut = FALSE]
  /\ UNCHANGED <<restVars, dataVars, authVars, variant, queueFile, reportFile>>

----------------------------------------------------------------------------
(* AuthStateManager, src/whatsapp/scraper.js: the data. *)

\* the three ids validateSessionStructure asks for
IdNames == {"deviceId", "phoneId", "identityId"}

\* this.state. creds: the object has a creds member; ids: the ids of creds
\* that are truthy; who: which envelope it is ("new": made by
\* createNewAuthState, then gen is its number; otherwise where it was stored).
\* NoCreds is an object without creds.
NullState == [creds |-> FALSE, ids |-> {}, who |-> "null", gen |-> 0]

Envelope(who, ids) == [creds |-> TRUE, ids |-> ids, who |-> who, gen |-> 0]

\* a parsed JSON object. state: its member state (NullState if it has none);
\* top: the object itself read as an envelope, as parsed.state || parsed does
\* when there is no member state; info: it has a member sessionInfo, whose
\* created is made (-1 for null)
NoCreds == [creds |-> FALSE, ids |-> {}, who |-> "object", gen |-> 0]

NoDoc == [state |-> NullState, top |-> NoCreds, info |-> FALSE, made |-> -1]

\* what saveSessionToFile serializes: { state, sessionInfo, savedAt, version }
SavedDoc(s, c) ==
  [state |-> s, top |-> NoCreds, info |-> TRUE, made |-> c]

\* an envelope stored bare, such as {"creds":{}}
BareDoc(e) == [state |-> NullState, top |-> e, info |-> FALSE, made |-> -1]

\* the text of a file. kind: "absent" (no file), "partial" (a write was begun
\* and not completed), "garbage" (not JSON), "json". For JSON text, enc: the
\* object has truthy members encrypted, iv and authTag; sealedBy: the key under
\* which its tag verifies ("none": under no key); inner: the object the
\* ciphertext decrypts to; doc: the object the text itself parses to
Absent ==
  [kind |-> "absent", enc |-> FALSE, sealedBy |-> "none", inner |-> NoDoc, doc |-> NoDoc]

Partial == [Absent EXCEPT !.kind = "partial"]

Garbage == [Absent EXCEPT !.kind = "garbage"]

PlainText(d) ==
  [kind |-> "json", enc |-> FALSE, sealedBy |-> "none", inner |-> NoDoc, doc |-> d]

\* { encrypted, iv, authTag, encryptedAt } and whatever other members d gives
CipherText(k, in, d) ==
  [kind |-> "json", enc |-> TRUE, sealedBy |-> k, inner |-> in, doc |-> d]

\* validateSessionStructure(session)
validateSessionStructure(session) ==
  /\ session # NullState
  /\ session.creds
  /\ "deviceId" \in session.ids
  /\ "phoneId" \in session.ids
  /\ "identityId" \in session.ids

\* isEncryptedData(data): JSON.parse throws on text that is not JSON
isEncryptedData(data) == data.kind = "json" /\ data.enc

\* encryptData(data) for the object d about to be saved
encryptData(d) ==
  IF encryptionKey = "none" THEN PlainText(d) ELSE CipherText(encryptionKey, d, NoDoc)

\* decryptData(encryptedData): the text to parse afterwards. Without a key, or
\* without the three members, or when decipher.final() throws (the tag does not
\* verify), the text given is returned
decryptData(data) ==
  IF encryptionKey = "none" \/ ~isEncryptedData(data) \/ data.sealedBy # encryptionKey
  THEN data
  ELSE PlainText(data.inner)

\* loadSessionFromFile() without its call of validateSessionStructure
loadSessionUnchecked(text) ==
  LET keep == [ret |-> NullState, state |-> state, created |-> created]
      data == IF isEncryptedData(text) THEN decryptData(text) ELSE text
      parsed == data.doc
      st == IF parsed.state # NullState THEN parsed.state ELSE parsed.top
      cr == IF parsed.info THEN parsed.made ELSE created
  IN  IF text.kind # "json" THEN keep
      ELSE IF isEncryptedData(text) /\ encryptionKey = "none" THEN keep
      ELSE [ret |-> st, state |-> st, created |-> cr]

\* loadSessionFromFile() on the text found at sessionFilePath: what it returns
\* (NullState for null) and what it leaves in this.state and
\* this.sessionInfo.created
loadSessionFromFile(text) ==
  LET keep == [ret |-> NullState, state |-> state, created |-> created]
      data == IF isEncryptedData(text) THEN decryptData(text) ELSE text
      parsed == data.doc
      st == IF parsed.state # NullState THEN parsed.state ELSE parsed.top
      cr == IF parsed.info THEN parsed.made ELSE created
  IN  IF text.kind # "json" THEN keep
      ELSE IF isEncryptedData(text) /\ encryptionKey = "none" THEN keep
      ELSE [ret |-> IF validateSessionStructure(st) THEN st ELSE NullState,
            state |-> st, created |-> cr]

----------------------------------------------------------------------------
(* AuthStateManager: the async methods, one action per run from an await   *)
(* to the next. The file operation a run ends with is done in that step.   *)

\* a suspended call. op: "load" (loadAuthState), "save" (saveSessionToFile
\* called from the saveCreds callback, the auto-save timer or updateUserInfo),
\* "clear" (clearAuthState), "none" (no call). pc: where it goes on. text: what
\* its writeFile writes; into: the file its writeFile has opened, 0 the one at
\* sessionFilePath, k the archive k it was renamed to; cnt: the count
\* getSaveCount has read; del: the backups cleanupOldBackups is deleting;
\* final: loadAuthState is in its own createBackup
NoTask ==
  [op |-> "none", pc |-> "", text |-> [kind |-> "absent"], into |-> 0, cnt |-> 0,
   del |-> <<>>, final |-> FALSE]

\* slot 0 holds the call of the operator (loadAuthState, clearAuthState), the
\* other slots the calls of saveSessionToFile that events and timers make
Savers == 1..MaxSavers

Slots == 0..MaxSavers

NoResult == [op |-> "none", ok |-> FALSE]

\* createNewAuthState(): the next new envelope
NewEnvelope == [creds |-> TRUE, ids |-> IdNames, who |-> "new", gen |-> made + 1]

\* saveSessionToFile() with this.state set, up to await writeFile: the task
\* that writes { state: s, sessionInfo: { created: c, ... } }
WriteTask(t, s, c) ==
  [t EXCEPT !.pc = "write", !.text = encryptData(SavedDoc(s, c)), !.into = 0]

\* where a call goes on when its createBackup has returned, and when its
\* saveSessionToFile has
AfterBackup(t) ==
  CASE t.op = "save" -> NoTask
    [] t.op = "load" /\ ~t.final -> [t EXCEPT !.pc = "copy", !.final = TRUE]
    [] t.op = "load" /\ t.final -> [t EXCEPT !.pc = "return"]
    [] t.op = "clear" -> [t EXCEPT !.pc = "stat"]
    [] t.op = "switch" /\ ~t.final -> [t EXCEPT !.pc = "read", !.final = TRUE]
    [] t.op = "switch" /\ t.final -> [t EXCEPT !.pc = "return"]

AfterSave(t) ==
  IF t.op = "load" THEN [t EXCEPT !.pc = "copy", !.final = TRUE]
  ELSE IF t.op = "switch" THEN [t EXCEPT !.pc = "return"]
  ELSE NoTask

\* saveSessionToFile() is called in slot i by the saveCreds callback or by
\* updateUserInfo: without state it returns false; otherwise created is set if
\* it was not, and the call suspends at await writeFile
SaveRun(i) ==
  /\ tasks[i] = NoTask
  /\ IF state = NullState
     THEN /\ result' = [op |-> "save", ok |-> FALSE]
          /\ UNCHANGED <<created, tasks>>
     ELSE /\ created' = IF created = -1 THEN now ELSE created
          /\ tasks' = [tasks EXCEPT ![i] =
                         WriteTask([NoTask EXCEPT !.op = "save"], state, created')]
          /\ UNCHANGED result
  /\ UNCHANGED <<restVars, dataVars, acctVars, state, encryptionKey, sessionFile, backups, archives,
                 saveCount, now, made>>

SaveCall(i, cap) ==
  /\ ops < cap
  /\ ops' = ops + 1
  /\ SaveRun(i)
  /\ UNCHANGED autoSaves

\* the timer updateSessionInfo has set fires: saveSessionToFile()
AutoSaveFires(i) ==
  /\ autoSaves > 0
  /\ autoSaves' = autoSaves - 1
  /\ SaveRun(i)
  /\ UNCHANGED ops

\* writeFile(sessionFilePath, ...) opens the file, which truncates it
WriteOpens(i) ==
  /\ tasks[i].pc = "write"
  /\ sessionFile' = Partial
  /\ tasks' = [tasks EXCEPT ![i].pc = "fill"]
  /\ UNCHANGED <<restVars, dataVars, acctVars, state, created, encryptionKey, backups, archives,
                 saveCount, autoSaves, now, made, ops, result>>

\* writeFile writes the text into the file it has opened and closes it
WriteCloses(i) ==
  /\ tasks[i].pc = "fill"
  /\ IF tasks[i].into = 0
     THEN sessionFile' = tasks[i].text /\ UNCHANGED archives
     ELSE archives' = [archives EXCEPT ![tasks[i].into] = tasks[i].text]
          /\ UNCHANGED sessionFile
  /\ tasks' = [tasks EXCEPT ![i].pc = "count", ![i].into = 0]
  /\ UNCHANGED <<restVars, dataVars, acctVars, state, created, encryptionKey, backups,
                 saveCount, autoSaves, now, made, ops, result>>

\* getSaveCount() reads .save_count (0 if there is none)
CountRead(i) ==
  /\ tasks[i].pc = "count"
  /\ tasks' = [tasks EXCEPT ![i].pc = "bump",
                            ![i].cnt = IF saveCount = -1 THEN 0 ELSE saveCount]
  /\ UNCHANGED <<restVars, dataVars, acctVars, state, created, encryptionKey, sessionFile, backups,
                 archives, saveCount, autoSaves, now, made, ops, result>>

\* getSaveCount() writes count + 1, and saveSessionToFile goes on to
\* createBackup whatever the count
CountWriteEvery(i) ==
  /\ tasks[i].pc = "bump"
  /\ saveCount' = tasks[i].cnt + 1
  /\ tasks' = [tasks EXCEPT ![i].pc = "copy"]
  /\ UNCHANGED <<restVars, dataVars, acctVars, state, created, encryptionKey, sessionFile, backups,
                 archives, autoSaves, now, made, ops, result>>

\* getSaveCount() writes count + 1 and returns it; saveSessionToFile goes on
\* to createBackup if that is a multiple of 10 and returns true otherwise
CountWrite(i) ==
  /\ tasks[i].pc = "bump"
  /\ saveCount' = tasks[i].cnt + 1
  /\ tasks' = [tasks EXCEPT ![i] =
                 IF (tasks[i].cnt + 1) % BACKUP_EVERY = 0
                 THEN [@ EXCEPT !.pc = "copy"]
                 ELSE AfterSave(@)]
  /\ UNCHANGED <<restVars, dataVars, acctVars, state, created, encryptionKey, sessionFile, backups,
                 archives, autoSaves, now, made, ops, result>>

\* the names of a set of backups in ascending order, which for the time stamps
\* the names are made of is the order of their making
RECURSIVE Sorted(_)
Sorted(S) == IF S = {} THEN <<>> ELSE <<Min(S)>> \o Sorted(S \ {Min(S)})

\* the name of the backup made now: later than those made before
NewBackup == IF backups = {} THEN 1 ELSE Max(backups) + 1

\* createBackup(): without a session file it returns; otherwise the file is
\* copied to a new backup and cleanupOldBackups is called
BackupCopy(i) ==
  /\ tasks[i].pc = "copy"
  /\ IF sessionFile.kind = "absent"
     THEN /\ tasks' = [tasks EXCEPT ![i] = AfterBackup(@)]
          /\ UNCHANGED backups
     ELSE /\ backups' = backups \cup {NewBackup}
          /\ tasks' = [tasks EXCEPT ![i].pc = "list"]
  /\ UNCHANGED <<restVars, dataVars, acctVars, state, created, encryptionKey, sessionFile,
                 archives, saveCount, autoSaves, now, made, ops, result>>

\* cleanupOldBackups(): readdir, sort, and the files beyond the newest
\* maxBackups to delete
BackupList(i) ==
  /\ tasks[i].pc = "list"
  /\ LET files == Sorted(backups)
         over == Len(files) - maxBackups
     IN  tasks' = [tasks EXCEPT ![i] =
                     IF over > 0
                     THEN [@ EXCEPT !.pc = "unlink", !.del = SubSeq(files, 1, over)]
                     ELSE AfterBackup(@)]
  /\ UNCHANGED <<restVars, dataVars, acctVars, state, created, encryptionKey, sessionFile, backups,
                 archives, saveCount, autoSaves, now, made, ops, result>>

\* cleanupOldBackups(): unlink of the next file; when the file is not there
\* unlink throws and the catch ends the cleanup
BackupUnlink(i) ==
  /\ tasks[i].pc = "unlink"
  /\ LET f == Head(tasks[i].del)
         rest == Tail(tasks[i].del)
     IN  IF f \in backups
         THEN /\ backups' = backups \ {f}
              /\ tasks' = [tasks EXCEPT ![i] =
                             IF rest = <<>>
                             THEN AfterBackup([@ EXCEPT !.del = <<>>])
                             ELSE [@ EXCEPT !.del = rest]]
         ELSE /\ tasks' = [tasks EXCEPT ![i] = AfterBackup([@ EXCEPT !.del = <<>>])]
              /\ UNCHANGED backups
  /\ UNCHANGED <<restVars, dataVars, acctVars, state, created, encryptionKey, sessionFile,
                 archives, saveCount, autoSaves, now, made, ops, result>>

\* the operator calls loadAuthState(): await initDirectories()
LoadCall(cap) ==
  /\ tasks[0] = NoTask
  /\ ops < cap
  /\ ops' = ops + 1
  /\ tasks' = [tasks EXCEPT ![0] = [NoTask EXCEPT !.op = "load", !.pc = "read"]]
  /\ UNCHANGED <<restVars, dataVars, acctVars, state, created, encryptionKey, sessionFile, backups,
                 archives, saveCount, autoSaves, now, made, result>>

\* loadAuthState() after loadSessionFromFile() has read the file. With a loaded
\* state: this.state is set, updateSessionInfo sets its timer, createBackup is
\* next. Without: this.state = createNewAuthState() and saveSessionToFile().
LoadRead ==
  /\ tasks[0].op = "load"
  /\ tasks[0].pc = "read"
  /\ LET r == loadSessionFromFile(sessionFile)
     IN  IF r.ret # NullState
         THEN /\ state' = r.ret
              /\ created' = r.created
              /\ autoSaves' = autoSaves + 1
              /\ tasks' = [tasks EXCEPT ![0].pc = "copy", ![0].final = TRUE]
              /\ UNCHANGED made
         ELSE /\ state' = NewEnvelope
              /\ made' = made + 1
              /\ created' = now
              /\ tasks' = [tasks EXCEPT ![0] = WriteTask(@, NewEnvelope, now)]
              /\ UNCHANGED autoSaves
  /\ UNCHANGED <<restVars, dataVars, acctVars, encryptionKey, sessionFile, backups, archives,
                 saveCount, now, ops, result>>

\* loadAuthState() returns { state: this.state, saveCreds }
LoadReturn ==
  /\ tasks[0].op = "load"
  /\ tasks[0].pc = "return"
  /\ result' = [op |-> "load", ok |-> TRUE]
  /\ tasks' = [tasks EXCEPT ![0] = NoTask]
  /\ UNCHANGED <<restVars, dataVars, acctVars, state, created, encryptionKey, sessionFile, backups,
                 archives, saveCount, autoSaves, now, made, ops>>

\* the operator calls clearAuthState(): await createBackup()
ClearCall(cap) ==
  /\ tasks[0] = NoTask
  /\ ops < cap
  /\ ops' = ops + 1
  /\ tasks' = [tasks EXCEPT ![0] = [NoTask EXCEPT !.op = "clear", !.pc = "copy"]]
  /\ UNCHANGED <<restVars, dataVars, acctVars, state, created, encryptionKey, sessionFile, backups,
                 archives, saveCount, autoSaves, now, made, result>>

\* clearAuthState(): fileExists(sessionFilePath)
ClearStat ==
  /\ tasks[0].op = "clear"
  /\ tasks[0].pc = "stat"
  /\ tasks' = [tasks EXCEPT ![0].pc =
                 IF sessionFile.kind = "absent" THEN "done" ELSE "rename"]
  /\ UNCHANGED <<restVars, dataVars, acctVars, state, created, encryptionKey, sessionFile, backups,
                 archives, saveCount, autoSaves, now, made, ops, result>>

\* clearAuthState(): rename(sessionFilePath, archivedPath). A writeFile that has
\* the file open goes on writing into the renamed file. Without a file rename
\* throws and clearAuthState returns false.
ClearRename ==
  /\ tasks[0].op = "clear"
  /\ tasks[0].pc = "rename"
  /\ IF sessionFile.kind = "absent"
     THEN /\ tasks' = [tasks EXCEPT ![0] = NoTask]
          /\ result' = [op |-> "clear", ok |-> FALSE]
          /\ UNCHANGED <<sessionFile, archives>>
     ELSE /\ archives' = Append(archives, sessionFile)
          /\ sessionFile' = Absent
          /\ tasks' = [i \in Slots |->
                         IF i = 0 THEN [tasks[0] EXCEPT !.pc = "done"]
                         ELSE IF tasks[i].pc = "fill" /\ tasks[i].into = 0
                              THEN [tasks[i] EXCEPT !.into = Len(archives) + 1]
                              ELSE tasks[i]]
          /\ UNCHANGED result
  /\ UNCHANGED <<restVars, dataVars, acctVars, state, created, encryptionKey, backups,
                 saveCount, autoSaves, now, made, ops>>

\* clearAuthState(): this.state = null, sessionInfo.created = null, return true
ClearDone ==
  /\ tasks[0].op = "clear"
  /\ tasks[0].pc = "done"
  /\ state' = NullState
  /\ created' = -1
  /\ result' = [op |-> "clear", ok |-> TRUE]
  /\ tasks' = [tasks EXCEPT ![0] = NoTask]
  /\ UNCHANGED <<restVars, dataVars, acctVars, encryptionKey, sessionFile, backups, archives,
                 saveCount, autoSaves, now, made, ops>>

\* the operator calls updateUserInfo(userData): without state it returns
\* false; this.state.creds.me = userData throws on a state without creds and
\* the catch returns false; otherwise saveSessionToFile()
UpdateCall(cap) ==
  /\ ops < cap
  /\ ops' = ops + 1
  /\ tasks[0] = NoTask
  /\ IF state # NullState /\ ~state.creds
     THEN /\ result' = [op |-> "update", ok |-> FALSE]
          /\ UNCHANGED <<created, tasks>>
          /\ UNCHANGED <<restVars, dataVars, acctVars, state, encryptionKey, sessionFile,
                         backups, archives, saveCount, now, made>>
     ELSE SaveRun(0)
  /\ UNCHANGED autoSaves

\* the operator calls switchSession(sessionFile) for file k of sessionDir:
\* await createBackup(). Until the file is read, into is that file.
SwitchCall(k, cap) ==
  /\ tasks[0] = NoTask
  /\ ops < cap
  /\ ops' = ops + 1
  /\ tasks' = [tasks EXCEPT ![0] = [NoTask EXCEPT !.op = "switch", !.pc = "copy",
                                                  !.into = k]]
  /\ UNCHANGED <<restVars, dataVars, acctVars, state, created, encryptionKey, sessionFile, backups,
                 archives, saveCount, autoSaves, now, made, result>>

\* switchSession after its createBackup: readFile and JSON.parse, which throw
\* into the catch (return false) when there is no such file or its text is no
\* JSON; this.state = parsed.state || parsed, this.sessionInfo =
\* parsed.sessionInfo || this.sessionInfo, this.sessionFilePath = filePath, so
\* that file k is the session file from here on and the former one a file of
\* sessionDir; then saveSessionToFile() up to await writeFile
SwitchRead ==
  /\ tasks[0].op = "switch"
  /\ tasks[0].pc = "read"
  /\ LET k == tasks[0].into
         text == IF k \in DOMAIN archives THEN archives[k] ELSE Absent
         parsed == text.doc
         st == IF parsed.state # NullState THEN parsed.state ELSE parsed.top
         cr == IF parsed.info THEN parsed.made ELSE created
     IN  IF text.kind # "json"
         THEN /\ result' = [op |-> "switch", ok |-> FALSE]
              /\ tasks' = [tasks EXCEPT ![0] = NoTask]
              /\ UNCHANGED <<state, created, sessionFile, archives>>
         ELSE /\ state' = st
              /\ created' = IF cr = -1 THEN now ELSE cr
              /\ sessionFile' = text
              /\ archives' = [archives EXCEPT ![k] = sessionFile]
              /\ tasks' = [tasks EXCEPT ![0] = WriteTask(@, st, created')]
              /\ UNCHANGED result
  /\ UNCHANGED <<restVars, dataVars, acctVars, encryptionKey, backups, saveCount, autoSaves,
                 now, made, ops>>

\* switchSession returns true
SwitchReturn ==
  /\ tasks[0].op = "switch"
  /\ tasks[0].pc = "return"
  /\ result' = [op |-> "switch", ok |-> TRUE]
  /\ tasks' = [tasks EXCEPT ![0] = NoTask]
  /\ UNCHANGED <<restVars, dataVars, acctVars, state, created, encryptionKey, sessionFile, backups,
                 archives, saveCount, autoSaves, now, made, ops>>

\* the age test with >= in place of >
TooOldAtThirty == (now - created) >= MAX_AGE_DAYS * DAY

\* (new Date() - new Date(created)) / (1000 * 60 * 60 * 24) > 30
TooOld == (now - created) > MAX_AGE_DAYS * DAY

\* hasValidSession()
hasValidSession ==
  IF state = NullState THEN FALSE
  ELSE IF sessionFile.kind = "absent" THEN FALSE
  ELSE IF created # -1 /\ TooOld THEN FALSE
  ELSE validateSessionStructure(state)

\* the operator calls hasValidSession()
ValidCall ==
  /\ tasks[0] = NoTask
  /\ result' = [op |-> "valid", ok |-> hasValidSession]
  /\ result' # result
  /\ UNCHANGED <<restVars, dataVars, acctVars, state, created, encryptionKey, sessionFile, backups,
                 archives, saveCount, tasks, autoSaves, now, made, ops>>

\* the manager as its constructor leaves it
NewManager ==
  /\ state = NullState
  /\ created = -1
  /\ tasks = [i \in Slots |-> NoTask]
  /\ autoSaves = 0
  /\ result = NoResult

\* the process dies and is started again: a new manager, the files as they are
StoreCrash ==
  /\ \E i \in Slots : tasks[i] # NoTask
  /\ state' = NullState
  /\ created' = -1
  /\ tasks' = [i \in Slots |-> NoTask]
  /\ autoSaves' = 0
  /\ result' = NoResult
  /\ UNCHANGED <<restVars, dataVars, acctVars, encryptionKey, sessionFile, backups, archives,
                 saveCount, now, made, ops>>

----------------------------------------------------------------------------
(* The table groups of the invite jobs, src/unnamed/part_008. *)

\* the values Date.now() and timeoutMs take
Stamps == 0..MaxTime

\* the status a caller passes to updateGroupStatus: the four of the comment on
\* the table and failed; the column takes any text
StatusNames == {"pending", "joined", "rejected", "expired", "failed"}

\* a row of the table; group_name is "NULL" or a name, -1 stands for NULL in
\* joined_at
Row(status, name, requested, joined, updated) ==
  [status |-> status, group_name |-> name, requested_at |-> requested,
   joined_at |-> joined, last_update |-> updated]

\* no row with that invite_link
NoRow == Row("none", "NULL", -1, -1, -1)

\* the row of that invite_link in the table
RowAt(table, inviteLink) ==
  IF inviteLink \in DOMAIN table THEN table[inviteLink] ELSE NoRow

NoCall == [op |-> "none", now |-> 0, timeoutMs |-> 0]

\* Date.now() does not go back
Clock == {t \in Stamps : t >= dbCall.now}

\* INSERT OR IGNORE: a new row with status pending, nothing when the link has
\* a row (invite_link is UNIQUE)
addGroupInvite(inviteLink, groupName, t) ==
  /\ groups' = IF RowAt(groups, inviteLink) = NoRow
               THEN [l \in DOMAIN groups \cup {inviteLink} |->
                       IF l = inviteLink THEN Row("pending", groupName, t, -1, t)
                       ELSE groups[l]]
               ELSE groups
  /\ dbCall' = [op |-> "addGroupInvite", now |-> t, timeoutMs |-> 0]
  /\ UNCHANGED <<restVars, acctVars, authVars, existing, incoming, merged, linkFiles, saved>>

\* UPDATE groups SET status = ?, last_update = ? WHERE invite_link = ?
updateGroupStatus(inviteLink, status, t) ==
  /\ groups' = IF RowAt(groups, inviteLink) = NoRow
               THEN groups
               ELSE [groups EXCEPT ![inviteLink].status = status,
                                   ![inviteLink].last_update = t]
  /\ dbCall' = [op |-> "updateGroupStatus", now |-> t, timeoutMs |-> 0]
  /\ UNCHANGED <<restVars, acctVars, authVars, existing, incoming, merged, linkFiles, saved>>

\* UPDATE groups SET status = 'joined', group_name = ?, joined_at = ?,
\* last_update = ? WHERE invite_link = ?
markGroupJoined(inviteLink, groupName, t) ==
  /\ groups' = IF RowAt(groups, inviteLink) = NoRow
               THEN groups
               ELSE [groups EXCEPT ![inviteLink].status = "joined",
                                   ![inviteLink].group_name = groupName,
                                   ![inviteLink].joined_at = t,
                                   ![inviteLink].last_update = t]
  /\ dbCall' = [op |-> "markGroupJoined", now |-> t, timeoutMs |-> 0]
  /\ UNCHANGED <<restVars, acctVars, authVars, existing, incoming, merged, linkFiles, saved>>

\* the WHERE clause with >= in place of >
expiresAtTimeout(row, timeoutMs, t) ==
  row.status = "pending" /\ t - row.requested_at >= timeoutMs

\* WHERE status = 'pending' AND (? - requested_at) > ?
expires(row, timeoutMs, t) ==
  row.status = "pending" /\ t - row.requested_at > timeoutMs

\* UPDATE groups SET status = 'expired', last_update = ? WHERE ...
expireOldPendingGroups(timeoutMs, t) ==
  /\ groups' = [l \in DOMAIN groups |->
                  IF expires(groups[l], timeoutMs, t)
                  THEN [groups[l] EXCEPT !.status = "expired", !.last_update = t]
                  ELSE groups[l]]
  /\ dbCall' = [op |-> "expireOldPendingGroups", now |-> t, timeoutMs |-> timeoutMs]
  /\ UNCHANGED <<restVars, acctVars, authVars, existing, incoming, merged, linkFiles, saved>>

----------------------------------------------------------------------------
(* uniqueLinks, src/utils/delay.js 31-41. *)

\* an element of an array: a string with its characters, or a value that is
\* no string (null)
Str(chars) == [type |-> "string", chars |-> chars]

Null == [type |-> "null", chars |-> <<>>]

\* String.prototype.trim without taking off the white space
trimNothing(chars) == chars

\* String.prototype.trim: the white space at both ends is taken off
RECURSIVE trim(_)
trim(chars) ==
  IF chars = <<>> THEN chars
  ELSE IF Head(chars) = " " THEN trim(Tail(chars))
  ELSE IF chars[Len(chars)] = " " THEN trim(SubSeq(chars, 1, Len(chars) - 1))
  ELSE chars

\* an array push in place of Set.prototype.add
SetAddAgain(set, x) == Append(set, x)

\* Set.prototype.add: a value the set holds is not added again, a new one
\* goes behind the others
SetAdd(set, x) == IF x \in Range(set) THEN set ELSE Append(set, x)

\* new Set(existing), in the order Array.from gives it back
RECURSIVE NewSet(_)
NewSet(array) ==
  IF array = <<>> THEN <<>>
  ELSE SetAdd(NewSet(SubSeq(array, 1, Len(array) - 1)), array[Len(array)])

\* if (item && typeof item === 'string'): a string that is not empty
truthyString(item) == item.type = "string" /\ item.chars # <<>>

\* the for-loop over incoming from item i on
RECURSIVE AddIncoming(_, _, _)
AddIncoming(set, items, i) ==
  IF i > Len(items) THEN set
  ELSE AddIncoming(IF truthyString(items[i])
                   THEN SetAdd(set, Str(trim(items[i].chars)))
                   ELSE set,
                   items, i + 1)

uniqueLinks(old, new) == AddIncoming(NewSet(old), new, 1)

\* no call of uniqueLinks made
NoMerge == [n |-> 0, out |-> <<>>]

\* uniqueLinks(existing, incoming) is called and returns
Merge ==
  /\ merged.n = 0
  /\ merged' = [n |-> 1, out |-> uniqueLinks(existing, incoming)]
  /\ UNCHANGED <<restVars, acctVars, authVars, groups, dbCall, existing, incoming, linkFiles, saved>>

\* uniqueLinks is called with what it returned and the same batch
MergeAgain ==
  /\ merged.n = 1
  /\ merged' = [n |-> 2, out |-> uniqueLinks(merged.out, incoming)]
  /\ UNCHANGED <<restVars, acctVars, authVars, groups, dbCall, existing, incoming, linkFiles, saved>>

----------------------------------------------------------------------------
(* extractLinks, src/whatsapp/scraper.js 61-65. *)

\* the characters of a text: "p", "q" and "P" stand for the texts http://,
\* https:// and HTTP://, " " for white space, "a" for any other character
TextChars == {"p", "q", "P", " ", "a"}

\* https?:\/\/ under the flag i
SchemeChars == {"p", "q", "P"}

\* the end of the run of [^\s] that holds position j
RECURSIVE RunEnd(_, _)
RunEnd(chars, j) ==
  IF j < Len(chars) /\ chars[j + 1] # " " THEN RunEnd(chars, j + 1) ELSE j

\* String.prototype.match without the flag g: the first match only
RECURSIVE MatchFirst(_, _)
MatchFirst(chars, i) ==
  IF i >= Len(chars) THEN <<>>
  ELSE IF chars[i] \in SchemeChars /\ chars[i + 1] # " "
       THEN <<SubSeq(chars, i, RunEnd(chars, i + 1))>>
       ELSE MatchFirst(chars, i + 1)

\* text.match(/(https?:\/\/[^\s]+)/gi) from position i on: the matches from left
\* to right, each as long as it can be, the search going on behind a match
RECURSIVE MatchAll(_, _)
MatchAll(chars, i) ==
  IF i >= Len(chars) THEN <<>>
  ELSE IF chars[i] \in SchemeChars /\ chars[i + 1] # " "
       THEN LET j == RunEnd(chars, i + 1)
            IN  <<SubSeq(chars, i, j)>> \o MatchAll(chars, j + 1)
       ELSE MatchAll(chars, i + 1)

\* if (!text || typeof text !== 'string') return []; text.match(regex) || []
extractLinks(text) ==
  IF text.type # "string" \/ text.chars = <<>> THEN <<>> ELSE MatchAll(text.chars, 1)

NoExtract == [text |-> Null, n |-> 0, out |-> <<>>]

\* extractLinks(text) is called and returns
Extract ==
  /\ extracted.n < 2
  /\ extracted' = [extracted EXCEPT !.n = @ + 1, !.out = extractLinks(extracted.text)]
  /\ UNCHANGED <<acctVars, authVars, dataVars, shown, wa, ar, reg>>

----------------------------------------------------------------------------
(* saveLinks, src/whatsapp/scraper.js 70-107. *)

Accounts == {"acc1", "acc2"}

\* the categories, src/telegram/handlers/links.js 12-19
LINK_TYPES == {"whatsapp", "telegram", "twitter", "instagram", "tiktok", "others"}

\* getLinksFile(accountId, type)
LinkFileNames == Accounts \X LINK_TYPES

\* a file: missing, JSON text with the member links, or text JSON.parse throws on
NoFile == [st |-> "missing", links |-> <<>>]

JsonFile(links) == [st |-> "json", links |-> links]

CorruptFile == [st |-> "corrupt", links |-> <<>>]

\* the file of that name among the files
FileAt(files, f) == IF f \in DOMAIN files THEN files[f] ELSE NoFile

\* the elements of a batch: a URL of a chat platform ("w" and "t" stand for
\* the domains the patterns know), the same with white space before it, a URL
\* of no known domain and the empty string
UrlItems == {Str(<<"w">>), Str(<<" ", "w">>), Str(<<"a">>), Str(<<>>)}

\* classifyLink giving a link that matches no pattern the category of the
\* last pattern
classifyNoDefault(link) ==
  IF link.type = "string" /\ "w" \in Range(link.chars) THEN "whatsapp"
  ELSE "telegram"

\* classifyLink: the category of the first domain pattern the link matches,
\* others when it matches none
classifyLink(link) ==
  IF link.type = "string" /\ "w" \in Range(link.chars) THEN "whatsapp"
  ELSE IF link.type = "string" /\ "t" \in Range(link.chars) THEN "telegram"
  ELSE "others"

\* ensureLinksFile: a missing file is made with links: []
ensureLinksFile(file) == IF file.st = "missing" THEN JsonFile(<<>>) ELSE file

\* the body of the for-loop of saveLinks for one link: a file that cannot be
\* parsed throws into the catch, which logs and leaves the file
SaveLink(files, accountId, link) ==
  LET f == <<accountId, classifyLink(link)>>
      file == ensureLinksFile(FileAt(files, f))
  IN  IF file.st = "corrupt"
      THEN files
      ELSE [g \in DOMAIN files \cup {f} |->
              IF g = f THEN JsonFile(uniqueLinks(file.links, <<link>>)) ELSE files[g]]

\* the for-loop of saveLinks from link i on
RECURSIVE SaveFrom(_, _, _, _)
SaveFrom(files, accountId, links, i) ==
  IF i > Len(links) THEN files
  ELSE SaveFrom(SaveLink(files, accountId, links[i]), accountId, links, i + 1)

NoSave == [accountId |-> "none", links |-> <<>>, types |-> <<>>]

\* saveLinks(accountId, links): all its file calls are synchronous
saveLinks(accountId, links) ==
  /\ linkFiles' = SaveFrom(linkFiles, accountId, links, 1)
  /\ saved' = [accountId |-> accountId, links |-> links,
               types |-> [i \in DOMAIN links |-> classifyLink(links[i])]]
  /\ UNCHANGED <<restVars, acctVars, authVars, groups, dbCall, existing, incoming, merged>>

\* handleViewLinks of src/telegram/handlers/links.js, which reads the files
\* saveLinks writes: getLinksDir of both modules names the same directory

\* readLinks with LINK_TYPES naming the last type 'other'
readLinksOther(files, accountId, type) ==
  LET file == FileAt(files, <<accountId, IF type = "others" THEN "other" ELSE type>>)
  IN  IF file.st = "json" THEN file.links ELSE <<>>

\* readLinks(accountId, type): no file and a file that does not parse read as
\* the empty list
readLinks(files, accountId, type) ==
  LET file == FileAt(files, <<accountId, type>>)
  IN  IF file.st = "json" THEN file.links ELSE <<>>

\* total += count over the types in types
RECURSIVE Total(_, _)
Total(counts, types) ==
  IF types = {} THEN 0
  ELSE LET type == CHOOSE t \in types : TRUE
       IN  counts[type] + Total(counts, types \ {type})

NoView == [accountId |-> "none", counts |-> <<>>, total |-> 0]

\* handleViewLinks(bot, chatId) with accountId the active account: the files
\* are read synchronously, then the message is sent
handleViewLinks(accountId) ==
  LET counts == [type \in LINK_TYPES |-> Len(readLinks(linkFiles, accountId, type))]
  IN  /\ shown' = [accountId |-> accountId, counts |-> counts,
                   total |-> Total(counts, LINK_TYPES)]
      /\ UNCHANGED <<acctVars, authVars, dataVars, extracted, wa, ar, reg>>

----------------------------------------------------------------------------
(* The accounts registry, src/whatsapp/accounts/registry.js: the manager    *)
(* (restoreLinkedAccounts, createAccount, removeAccount, getAccount) and    *)
(* loadAccounts and saveAccounts, all on the file accounts.json.            *)

\* the ids: acc_<ms> for the ms of the run, and 0 for an account of an
\* earlier run
AccountIds == 0..MaxMs

\* the file accounts.json: missing, JSON text with the ids of its member
\* accounts in their order, or text JSON.parse throws on
NoAccountsFile == [st |-> "missing", ids |-> <<>>]

AccountsFile(ids) == [st |-> "json", ids |-> ids]

CorruptAccountsFile == [st |-> "corrupt", ids |-> <<>>]

\* the registry not loaded
NoReg == [calls |-> -1]

\* the process as it starts: no account in the Map, no account object, the
\* file as the earlier runs have left it.
\*   conn   of the account object made for an id: "none" (no object or not
\*          connected), "open", "timer" (its close handler has set the timer
\*          of its reconnect)
\*   gone   the ids removeAccount has returned true for and that were not
\*          made again since
\*   restored  restoreLinkedAccounts has run to its end
RegStart(file) ==
  [accounts |-> {}, file |-> file, now |-> 1, conn |-> [id \in AccountIds |-> "none"],
   gone |-> {}, restored |-> FALSE, calls |-> 0, last |-> [op |-> "none", id |-> -1, ret |-> "none"]]

\* ensureAccountsFile() / ensureRegistryFile(): a missing file is written
\* with { accounts: [] }; writeFileSync throws when the write fails
ensureAccountsFile(file, writeFails) ==
  IF file.st # "missing" THEN [file |-> file, threw |-> FALSE]
  ELSE IF writeFails THEN [file |-> file, threw |-> TRUE]
  ELSE [file |-> AccountsFile(<<>>), threw |-> FALSE]

\* JSON.parse(fs.readFileSync(ACCOUNTS_FILE)) inside try with data preset to
\* { accounts: [] }: the ids read, none when the text does not parse
ReadIds(file) == IF file.st = "json" THEN file.ids ELSE <<>>

\* data.accounts.filter(acc => acc.id !== id)
RECURSIVE FilterId(_, _)
FilterId(ids, id) ==
  IF ids = <<>> THEN <<>>
  ELSE IF Head(ids) = id THEN FilterId(Tail(ids), id)
  ELSE <<Head(ids)>> \o FilterId(Tail(ids), id)

\* a call on the registry is counted and its outcome kept
RegCalled(r, op, id, ret) ==
  [r EXCEPT !.calls = @ + 1, !.last = [op |-> op, id |-> id, ret |-> ret]]

\* Date.now() moves on by a millisecond
RegTick ==
  /\ reg.now < MaxMs
  /\ reg' = [reg EXCEPT !.now = @ + 1]
  /\ UNCHANGED <<acctVars, authVars, dataVars, extracted, shown, wa, ar>>

\* restoreLinkedAccounts(): an account object is made and set for every id
\* of the file; a file that does not parse is logged and nothing is restored
restoreLinkedAccounts(writeFails) ==
  /\ reg.calls < MaxRegCalls
  /\ LET e == ensureAccountsFile(reg.file, writeFails)
         ids == Range(ReadIds(e.file))
     IN  reg' = IF e.threw
                THEN RegCalled(reg, "restoreLinkedAccounts", -1, "threw")
                ELSE RegCalled([reg EXCEPT
                                  !.file = e.file,
                                  !.accounts = @ \cup ids,
                                  !.conn = [id \in AccountIds |->
                                              IF id \in ids THEN "none" ELSE @[id]],
                                  !.gone = @ \ ids,
                                  !.restored = TRUE],
                               "restoreLinkedAccounts", -1, "undefined")
  /\ UNCHANGED <<acctVars, authVars, dataVars, extracted, shown, wa, ar>>

\* createAccount(): the id is acc_<Date.now()>; the new account object is set
\* in the Map, the file is read (no ids when it does not parse), the id is
\* pushed and the file written; writeFileSync is not inside a try
createAccount(writeFails) ==
  /\ reg.calls < MaxRegCalls
  /\ LET id == reg.now
         e == ensureAccountsFile(reg.file, writeFails)
         added == [reg EXCEPT !.accounts = @ \cup {id}, !.conn[id] = "none",
                             !.gone = @ \ {id}]
     IN  reg' = IF e.threw
                THEN RegCalled(reg, "createAccount", id, "threw")
                ELSE IF writeFails
                THEN RegCalled([added EXCEPT !.file = e.file], "createAccount", id, "threw")
                ELSE RegCalled([added EXCEPT
                                  !.file = AccountsFile(Append(ReadIds(e.file), id))],
                               "createAccount", id, "account")
  /\ UNCHANGED <<acctVars, authVars, dataVars, extracted, shown, wa, ar>>

\* removeAccount(id): false for an id that is not in the Map; otherwise the
\* id is deleted from the Map, the file is read (no ids when it does not
\* parse), filtered and written, and true is returned. The account object is
\* not touched.
removeAccount(id, writeFails) ==
  /\ reg.calls < MaxRegCalls
  /\ reg' = IF id \notin reg.accounts
            THEN RegCalled(reg, "removeAccount", id, "false")
            ELSE LET deleted == [reg EXCEPT !.accounts = @ \ {id}]
                 IN  IF writeFails
                     THEN RegCalled(deleted, "removeAccount", id, "threw")
                     ELSE RegCalled([deleted EXCEPT
                                       !.file = AccountsFile(FilterId(ReadIds(reg.file), id)),
                                       !.gone = @ \cup {id}],
                                    "removeAccount", id, "true")
  /\ UNCHANGED <<acctVars, authVars, dataVars, extracted, shown, wa, ar>>

\* getAccount(id): the account object, null for an id that is not in the Map
getAccount(id) == IF id \in reg.accounts THEN id ELSE -1

\* loadAccounts(): ensureRegistryFile(), then the file is read and parsed
\* inside try; the catch logs and returns { accounts: [] }
loadAccounts(writeFails) ==
  /\ reg.calls < MaxRegCalls
  /\ LET e == ensureAccountsFile(reg.file, writeFails)
     IN  reg' = IF e.threw
                THEN RegCalled(reg, "loadAccounts", -1, "threw")
                ELSE RegCalled([reg EXCEPT !.file = e.file], "loadAccounts", -1,
                               IF e.file.st = "json" THEN "data" ELSE "default")
  /\ UNCHANGED <<acctVars, authVars, dataVars, extracted, shown, wa, ar>>

\* saveAccounts(data): ensureRegistryFile(), then the file is written inside
\* try; the catch logs
saveAccounts(ids, writeFails) ==
  /\ reg.calls < MaxRegCalls
  /\ LET e == ensureAccountsFile(reg.file, writeFails)
     IN  reg' = IF e.threw
                THEN RegCalled(reg, "saveAccounts", -1, "threw")
                ELSE RegCalled([reg EXCEPT !.file = IF writeFails THEN e.file
                                                   ELSE AccountsFile(ids)],
                               "saveAccounts", -1, "undefined")
  /\ UNCHANGED <<acctVars, authVars, dataVars, extracted, shown, wa, ar>>

\* the operator has the account of id connect: getAccount(id), then
\* connectWithPairing of the object, which comes to be open and runs its
\* queue pass
RegConnect(id) ==
  /\ getAccount(id) = id
  /\ reg.conn[id] = "none"
  /\ reg' = [reg EXCEPT !.conn[id] = "open"]
  /\ UNCHANGED <<acctVars, authVars, dataVars, extracted, shown, wa, ar>>

\* the connection of the account object of id closes for another reason than
\* logged-out: its handler sets the timer of the reconnect
RegClose(id) ==
  /\ reg.conn[id] = "open"
  /\ reg' = [reg EXCEPT !.conn[id] = "timer"]
  /\ UNCHANGED <<acctVars, authVars, dataVars, extracted, shown, wa, ar>>

\* the timer fires: connectWithPairing again, open, queue pass
RegTimerFires(id) ==
  /\ reg.conn[id] = "timer"
  /\ reg' = [reg EXCEPT !.conn[id] = "open"]
  /\ UNCHANGED <<acctVars, authVars, dataVars, extracted, shown, wa, ar>>

----------------------------------------------------------------------------
(* handleAutoReply, src/src/whatsapp/actions/auto.reply.js. *)

\* the texts of the messages: none, one without the keyword, one that holds
\* the keyword in capitals
MsgTexts == {"", "hello", "PRICE please"}

\* a rule of AutoRepliesRepo: its keyword ("" for none) and its reply_text
Rule(keyword, reply) == [keyword |-> keyword, reply_text |-> reply]

\* what AutoRepliesRepo.getAll(scope) returns: no rule, a rule for the keyword,
\* a rule for the keyword before a rule without keyword, and the two the
\* other way round
RuleLists ==
  {<<>>,
   <<Rule("price", "r1")>>,
   <<Rule("price", "r1"), Rule("", "r2")>>,
   <<Rule("", "r2"), Rule("price", "r1")>>}

\* matchRule(text, rule): text.toLowerCase().includes(rule.keyword.toLowerCase())
matchRule(text, rule) ==
  IF rule.keyword = "" THEN TRUE
  ELSE rule.keyword = "price" /\ text = "PRICE please"

\* the loop over the rules from rule i on: the first matching rule replies and
\* break ends the loop
RECURSIVE FirstMatch(_, _, _)
FirstMatch(text, rules, i) ==
  IF i > Len(rules) THEN <<>>
  ELSE IF matchRule(text, rules[i]) THEN <<i>>
  ELSE FirstMatch(text, rules, i + 1)

\* handleAutoReply not called
NoAr == [autoReply |-> FALSE]

\* RuntimeState as the process starts with auto-reply on or off
ArStart(enabled) ==
  [autoReply |-> enabled, repliedUsers |-> {}, calls |-> <<>>, sent |-> <<>>]

ArCalls == 1..Len(ar.calls)

\* the operator turns auto-reply on or off
ArToggle ==
  /\ ar' = [ar EXCEPT !.autoReply = ~@]
  /\ UNCHANGED <<acctVars, authVars, dataVars, extracted, shown, wa, reg>>

\* handleAutoReply(page, message) up to await AutoRepliesRepo.getAll(scope),
\* or its return: auto-reply off, no text, or a private sender in repliedUsers
ArCall(senderId, isGroup, text) ==
  /\ Len(ar.calls) < MaxMsgs
  /\ LET back == ~ar.autoReply \/ text = ""
                    \/ (~isGroup /\ senderId \in ar.repliedUsers)
     IN  ar' = [ar EXCEPT !.calls = Append(@,
                  [senderId |-> senderId, isGroup |-> isGroup, text |-> text,
                   pc |-> IF back THEN "returned" ELSE "rules", todo |-> <<>>,
                   rules |-> <<>>])]
  /\ UNCHANGED <<acctVars, authVars, dataVars, extracted, shown, wa, reg>>

\* getAll has returned rules: the loop runs to the first matching rule and
\* suspends at await delay(...), or ends without a match
ArRules(c, rules) ==
  /\ ar.calls[c].pc = "rules"
  /\ LET todo == FirstMatch(ar.calls[c].text, rules, 1)
     IN  ar' = [ar EXCEPT !.calls[c].rules = rules,
                          !.calls[c].todo = todo,
                          !.calls[c].pc = IF todo = <<>> THEN "returned" ELSE "delay"]
  /\ UNCHANGED <<acctVars, authVars, dataVars, extracted, shown, wa, reg>>

\* the delay is over: page.keyboard.type(rule.reply_text) is awaited
ArDelayOver(c) ==
  /\ ar.calls[c].pc = "delay"
  /\ ar' = [ar EXCEPT !.calls[c].pc = "type"]
  /\ UNCHANGED <<acctVars, authVars, dataVars, extracted, shown, wa, reg>>

\* the text is typed: page.keyboard.press('Enter') is awaited
ArTyped(c) ==
  /\ ar.calls[c].pc = "type"
  /\ ar' = [ar EXCEPT !.calls[c].pc = "press"]
  /\ UNCHANGED <<acctVars, authVars, dataVars, extracted, shown, wa, reg>>

\* press has resolved, the reply is sent: a private sender is added to
\* repliedUsers; break
ArPressed(c) ==
  /\ ar.calls[c].pc = "press"
  /\ ar' = [ar EXCEPT !.calls[c].pc = "returned",
                      !.sent = Append(@, [call |-> c, rule |-> Head(ar.calls[c].todo),
                                          enabled |-> ar.autoReply]),
                      !.repliedUsers = IF ar.calls[c].isGroup THEN @
                                       ELSE @ \cup {ar.calls[c].senderId}]
  /\ UNCHANGED <<acctVars, authVars, dataVars, extracted, shown, wa, reg>>

\* type or press throws (the page is gone): the catch logs; break
ArThrows(c) ==
  /\ ar.calls[c].pc \in {"type", "press"}
  /\ ar' = [ar EXCEPT !.calls[c].pc = "returned"]
  /\ UNCHANGED <<acctVars, authVars, dataVars, extracted, shown, wa, reg>>

----------------------------------------------------------------------------
(* connectWhatsApp, src/unnamed/part_004: the supervisor of the single       *)
(* connection.                                                               *)

\* connectWhatsApp not called, the settings not read
NoWa == [calls |-> -1]

\* the process as it starts: config.safety as the environment sets it, a
\* session stored by an earlier run or none
WaStart(autoReconnect, clearSessionOnLogout, session) ==
  [autoReconnect |-> autoReconnect, clearSessionOnLogout |-> clearSessionOnLogout,
   session |-> session, calls |-> 0, socks |-> <<>>, sock |-> 0,
   lastClose |-> "", called |-> FALSE]

WaSockIds == 1..Len(wa.socks)

\* connectWhatsApp() is called at the start of the process and suspends at
\* await loadAuthState()
WaCall ==
  /\ ~wa.called
  /\ wa' = [wa EXCEPT !.calls = @ + 1, !.called = TRUE]
  /\ UNCHANGED <<acctVars, authVars, dataVars, extracted, shown, ar, reg>>

\* a suspended call goes on (nothing is written between its two awaits):
\* makeWASocket, sock = the new socket, the handlers are attached
WaResume ==
  /\ wa.calls > 0
  /\ Len(wa.socks) < MaxWaSocks
  /\ wa' = [wa EXCEPT !.calls = @ - 1, !.socks = Append(@, "connecting"),
                      !.sock = Len(wa.socks) + 1]
  /\ UNCHANGED <<acctVars, authVars, dataVars, extracted, shown, ar, reg>>

\* connection.update { qr } on socket s, which the provider sends while the
\* socket has no credentials: the code is printed
WaQr(s) ==
  /\ wa.socks[s] = "connecting"
  /\ ~wa.session
  /\ wa' = [wa EXCEPT !.socks[s] = "qr"]
  /\ UNCHANGED <<acctVars, authVars, dataVars, extracted, shown, ar, reg>>

\* connection.update { connection: 'open' } on socket s: a message is logged;
\* the credentials have been stored through creds.update
WaOpen(s) ==
  /\ wa.socks[s] \in {"connecting", "qr"}
  /\ wa' = [wa EXCEPT !.socks[s] = "open", !.session = TRUE]
  /\ UNCHANGED <<acctVars, authVars, dataVars, extracted, shown, ar, reg>>

\* connection.update { connection: 'close' } on socket s with reason r:
\* clearSession() if the reason is logged-out and the setting asks for it,
\* then connectWhatsApp() if config.safety.autoReconnect, up to its first await
WaClose(s, r) ==
  /\ wa.socks[s] \in {"connecting", "qr", "open"}
  /\ wa.autoReconnect => Len(wa.socks) + wa.calls < MaxWaSocks
  /\ wa' = [wa EXCEPT
              !.socks[s] = "closed",
              !.lastClose = r,
              !.session = IF r = "loggedOut" /\ wa.clearSessionOnLogout THEN FALSE ELSE @,
              !.calls = IF wa.autoReconnect THEN @ + 1 ELSE @]
  /\ UNCHANGED <<acctVars, authVars, dataVars, extracted, shown, ar, reg>>

----------------------------------------------------------------------------

\* the account as its constructor leaves it, the files as _ensureStorage does
NewAccount ==
  /\ sock = 0
  /\ connected = FALSE
  /\ isLinking = TRUE
  /\ pairingRequested = FALSE
  /\ socks = <<>>
  /\ calls = <<>>
  /\ logoutOn = 0
  /\ queueFile = <<>>
  /\ reportFile = EmptyReport
  /\ passes = <<>>
  /\ hist = [phase |-> "INIT", enqueued |-> {}, nEnq |-> 0, lastClose |-> "",
             loggedOutClose |-> FALSE, loggedOut |-> FALSE]

\* no AuthStateManager is made and it has no directory: the account keeps
\* its credentials with useMultiFileAuthState
NoManager ==
  /\ state = NullState
  /\ created = -1
  /\ tasks = <<>>
  /\ autoSaves = 0
  /\ result = NoResult
  /\ encryptionKey = "none"
  /\ sessionFile = [kind |-> "absent"]
  /\ backups = {}
  /\ archives = <<>>
  /\ saveCount = -1
  /\ now = 0
  /\ made = 0
  /\ ops = 0

\* no row in the table, no call made on it
EmptyTable ==
  /\ groups = [l \in {} |-> NoRow]
  /\ dbCall = NoCall

\* uniqueLinks not called
NotMerged ==
  /\ existing = <<>>
  /\ incoming = <<>>
  /\ merged = NoMerge

\* no link file, saveLinks not called
NoLinkFiles ==
  /\ linkFiles = [f \in {} |-> NoFile]
  /\ saved = NoSave

\* extractLinks not called, no message of handleViewLinks
NotExtracted ==
  extracted = NoExtract /\ shown = NoView /\ wa = NoWa /\ ar = NoAr /\ reg = NoReg

EmptyData == EmptyTable /\ NotMerged /\ NoLinkFiles /\ NotExtracted

Init ==
  /\ variant \in {"qr", "pairing"}
  /\ NewAccount
  /\ NoManager
  /\ EmptyData

\* The connection lifecycle: both variants, the operator connects and logs
\* out at will and enqueues nothing, so every pass finds the queue empty.
\* (this.phoneNumber and this.pairingCode are written and never read.)
Next ==
  \/ ConnectCall(MaxSocks)
  \/ \E k \in DOMAIN calls : ConnectResume(k, MaxSocks)
  \/ \E s \in SockIds : ConnectingUpdate(s)
  \/ \E h \in SockIds : PairingResolves(h)
  \/ \E h \in SockIds : PairingRejects(h)
  \/ \E s \in SockIds : OpenUpdate(s)
  \/ \E s \in SockIds, r \in Reasons : CloseUpdate(s, r, MaxSocks)
  \/ \E s \in SockIds : TimerFires(s)
  \/ LogoutCall
  \/ LogoutResolves
  \/ LogoutThrows
  \/ Tick

Spec == Init /\ [][Next]_vars

\* The group-join queue of a pairing-variant account: connections open, close
\* and reconnect, the operator enqueues links, the process may die. Here the
\* operator connects the account only while it has no connection, none being
\* made and no reconnect pending.
InitQueue == Init /\ variant = "pairing"

Idle ==
  /\ \A s \in SockIds : ~Live(s)
  /\ calls = <<>>
  /\ PendingTimers = {}

ConnectIdle(cap) == Idle /\ ConnectCall(cap)

NextQueue ==
  \/ ConnectIdle(MaxQueueSocks)
  \/ \E k \in DOMAIN calls : ConnectResume(k, MaxQueueSocks)
  \/ \E s \in SockIds : OpenUpdate(s)
  \/ \E s \in SockIds, r \in Reasons : CloseUpdate(s, r, MaxQueueSocks)
  \/ \E s \in SockIds : TimerFires(s)
  \/ \E p \in SockIds : JoinResolves(p)
  \/ \E p \in SockIds : JoinRejects(p)
  \/ \E p \in SockIds : DelayOver(p)
  \/ \E l \in Links : Enqueue(l)
  \/ Tick
  \/ Crash

SpecQueue == InitQueue /\ [][NextQueue]_vars

\* The credential store. The manager is made over the files an earlier run,
\* an older version or somebody else has left. The operator calls
\* loadAuthState, clearAuthState and hasValidSession one after the other, while
\* credential updates and timers call saveSessionToFile at any time.

\* the time of the run, in seconds after the stored files were made: at once,
\* 30 days later, a second more
Times == {0, MAX_AGE_DAYS * DAY, MAX_AGE_DAYS * DAY + 1}

\* SESSION_ENCRYPTION_KEY: not set, or a key
Keys == {"none", "k1"}

\* the session files found: none; text that is not JSON; a file cut short; a
\* file saved without key; a bare envelope with no id or with one id missing;
\* a file sealed with the key k1 or with another key; a file whose tag
\* verifies under no key and that carries a creds member of its own
StoredTexts ==
  {Absent, Garbage, Partial,
   PlainText(SavedDoc(Envelope("stored", IdNames), 0)),
   PlainText(BareDoc(Envelope("bare", {}))),
   CipherText("k1", SavedDoc(Envelope("sealed", IdNames), 0), NoDoc),
   CipherText("k2", SavedDoc(Envelope("sealed", IdNames), 0), NoDoc),
   CipherText("none", NoDoc, BareDoc(Envelope("unverified", IdNames)))}
    \cup {PlainText(BareDoc(Envelope("bare", IdNames \ {x}))) : x \in IdNames}

\* Loading: any session file, with or without key, at any of the times; no
\* backups yet
InitAuth ==
  /\ variant = "pairing"
  /\ NewAccount
  /\ NewManager
  /\ encryptionKey \in Keys
  /\ sessionFile \in StoredTexts
  /\ backups = {}
  /\ archives = <<>>
  /\ saveCount = -1
  /\ now \in Times
  /\ made = 0
  /\ ops = 0
  /\ EmptyData

NextAuth ==
  \/ LoadCall(MaxAuthCalls)
  \/ LoadRead
  \/ LoadReturn
  \/ ValidCall
  \/ \E i \in 1..1 : SaveCall(i, MaxAuthCalls)
  \/ \E i \in 1..1 : AutoSaveFires(i)
  \/ \E i \in 0..1 : WriteOpens(i)
  \/ \E i \in 0..1 : WriteCloses(i)
  \/ \E i \in 0..1 : CountRead(i)
  \/ \E i \in 0..1 : CountWrite(i)
  \/ \E i \in 0..1 : BackupCopy(i)
  \/ \E i \in 0..1 : BackupList(i)

SpecAuth == InitAuth /\ [][NextAuth]_vars

\* Saving, backing up and archiving: a saved session file or none, the save
\* count and the backups of earlier runs; the process may die.
InitStore ==
  /\ variant = "pairing"
  /\ NewAccount
  /\ NewManager
  /\ encryptionKey = "none"
  /\ sessionFile \in {Absent, PlainText(SavedDoc(Envelope("stored", IdNames), 0))}
  /\ backups \in {{}, 1..maxBackups}
  /\ archives = <<>>
  /\ saveCount \in {-1, BACKUP_EVERY - 1}
  /\ now = 0
  /\ made = 0
  /\ ops = 0
  /\ EmptyData

NextStore ==
  \/ LoadCall(MaxStoreCalls)
  \/ LoadRead
  \/ LoadReturn
  \/ ClearCall(MaxStoreCalls)
  \/ ClearStat
  \/ ClearRename
  \/ ClearDone
  \/ \E i \in Savers : SaveCall(i, MaxStoreCalls)
  \/ \E i \in Savers : AutoSaveFires(i)
  \/ \E i \in Slots : WriteOpens(i)
  \/ \E i \in Slots : WriteCloses(i)
  \/ \E i \in Slots : CountRead(i)
  \/ \E i \in Slots : CountWrite(i)
  \/ \E i \in Slots : BackupCopy(i)
  \/ \E i \in Slots : BackupList(i)
  \/ \E i \in Slots : BackupUnlink(i)
  \/ StoreCrash

SpecStore == InitStore /\ [][NextStore]_vars

\* The job table: callers add invite links (without group name, the default),
\* set their status, mark them joined under a name and expire the old pending
\* ones, the clock going on between the calls.
InitJobs ==
  /\ variant = "pairing"
  /\ NewAccount
  /\ NoManager
  /\ EmptyData

NextJobs ==
  \/ \E l \in Links, t \in Clock : addGroupInvite(l, "NULL", t)
  \/ \E l \in Links, st \in StatusNames, t \in Clock : updateGroupStatus(l, st, t)
  \/ \E l \in Links, t \in Clock : markGroupJoined(l, "g", t)
  \/ \E ms \in Stamps, t \in Clock : expireOldPendingGroups(ms, t)

SpecJobs == InitJobs /\ [][NextJobs]_vars

\* the arrays of at most n elements of a set
Arrays(items, n) == UNION {[1..k -> items] : k \in 0..n}

\* the elements of the arrays given to uniqueLinks: strings, empty, of white
\* space, with white space before or behind, equal once trimmed, and null
AnyItems ==
  {Str(<<>>), Str(<<" ">>), Str(<<"a">>), Str(<<" ", "a">>), Str(<<"a", " ">>),
   Str(<<"b">>), Null}

\* uniqueLinks as a function: any two arrays, merged once and once again
InitUnique ==
  /\ variant = "pairing"
  /\ NewAccount
  /\ NoManager
  /\ NotExtracted
  /\ EmptyTable
  /\ NoLinkFiles
  /\ existing \in Arrays(AnyItems, MaxLen)
  /\ incoming \in Arrays(AnyItems, MaxLen)
  /\ merged = NoMerge

NextUnique == Merge \/ MergeAgain

SpecUnique == InitUnique /\ [][NextUnique]_vars

\* The link files of two accounts: batches of links are saved for either
\* account, one call after the other; at the start no link file exists, or
\* one exists whose text cannot be parsed.
InitLinks ==
  /\ variant = "pairing"
  /\ NewAccount
  /\ NoManager
  /\ NotExtracted
  /\ EmptyTable
  /\ NotMerged
  /\ linkFiles \in {[f \in {} |-> NoFile],
                    [f \in {<<"acc1", "whatsapp">>} |-> CorruptFile]}
  /\ saved = NoSave

NextLinks ==
  \E a \in Accounts, links \in Arrays(UrlItems, MaxBatch) : saveLinks(a, links)

SpecLinks == InitLinks /\ [][NextLinks]_vars

\* The link files with their view: batches are saved as in SpecLinks and the
\* operator asks for the counts of either account at any time.
NextView ==
  \/ NextLinks
  \/ \E a \in Accounts : handleViewLinks(a)

SpecView == InitLinks /\ [][NextView]_vars

\* Switching sessions: the operator calls loadAuthState, switchSession,
\* updateUserInfo, saveSessionToFile and clearAuthState one after the other,
\* each when the call before it has returned. The session file is one the
\* manager has saved, or there is none; sessionDir holds one more file.
OtherTexts ==
  {PlainText(SavedDoc(Envelope("other", IdNames), 0)),
   PlainText(BareDoc(Envelope("bare", IdNames \ {"phoneId"}))),
   Garbage}

InitSwitch ==
  /\ variant = "pairing"
  /\ NewAccount
  /\ NewManager
  /\ encryptionKey = "none"
  /\ sessionFile \in {Absent, PlainText(SavedDoc(Envelope("stored", IdNames), 0))}
  /\ backups = {}
  /\ archives \in {<<t>> : t \in OtherTexts}
  /\ saveCount = -1
  /\ now = 0
  /\ made = 0
  /\ ops = 0
  /\ EmptyData

NextSwitch ==
  \/ LoadCall(MaxAuthCalls)
  \/ LoadRead
  \/ LoadReturn
  \/ \E k \in 1..2 : SwitchCall(k, MaxAuthCalls)
  \/ SwitchRead
  \/ SwitchReturn
  \/ UpdateCall(MaxAuthCalls)
  \/ SaveCall(0, MaxAuthCalls)
  \/ ClearCall(MaxAuthCalls)
  \/ ClearStat
  \/ ClearRename
  \/ ClearDone
  \/ WriteOpens(0)
  \/ WriteCloses(0)
  \/ CountRead(0)
  \/ CountWrite(0)
  \/ BackupCopy(0)
  \/ BackupList(0)

SpecSwitch == InitSwitch /\ [][NextSwitch]_vars

\* The single-connection supervisor under every setting of config.safety: the
\* process calls connectWhatsApp once, the provider opens and closes the
\* connections.
InitWa ==
  /\ variant = "pairing"
  /\ NewAccount
  /\ NoManager
  /\ EmptyTable
  /\ NotMerged
  /\ NoLinkFiles
  /\ extracted = NoExtract
  /\ shown = NoView
  /\ wa \in {WaStart(a, c, s) : a \in BOOLEAN, c \in BOOLEAN, s \in BOOLEAN}
  /\ ar = NoAr
  /\ reg = NoReg

NextWa ==
  \/ WaCall
  \/ WaResume
  \/ \E s \in WaSockIds : WaQr(s)
  \/ \E s \in WaSockIds : WaOpen(s)
  \/ \E s \in WaSockIds, r \in Reasons : WaClose(s, r)

SpecWa == InitWa /\ [][NextWa]_vars

\* The registry: the file of an earlier run, which may not parse; the
\* operator restores, creates and removes accounts and has them connect;
\* connections close and reconnect. Every write succeeds.
InitRegistry ==
  /\ variant = "pairing"
  /\ NewAccount
  /\ NoManager
  /\ EmptyTable
  /\ NotMerged
  /\ NoLinkFiles
  /\ extracted = NoExtract
  /\ shown = NoView
  /\ wa = NoWa
  /\ ar = NoAr
  /\ reg \in {RegStart(f) : f \in {NoAccountsFile, AccountsFile(<<>>), AccountsFile(<<0>>),
                                   CorruptAccountsFile}}

NextRegistry ==
  \/ RegTick
  \/ restoreLinkedAccounts(FALSE)
  \/ createAccount(FALSE)
  \/ \E id \in AccountIds : removeAccount(id, FALSE)
  \/ \E id \in AccountIds : RegConnect(id)
  \/ \E id \in AccountIds : RegClose(id)
  \/ \E id \in AccountIds : RegTimerFires(id)

SpecRegistry == InitRegistry /\ [][NextRegistry]_vars

\* The registry with storage failures: any write may fail, and loadAccounts
\* and saveAccounts are called as well.
NextStorage ==
  \/ RegTick
  \/ \E f \in BOOLEAN : restoreLinkedAccounts(f)
  \/ \E f \in BOOLEAN : createAccount(f)
  \/ \E id \in AccountIds, f \in BOOLEAN : removeAccount(id, f)
  \/ \E f \in BOOLEAN : loadAccounts(f)
  \/ \E ids \in {<<>>, <<0>>}, f \in BOOLEAN : saveAccounts(ids, f)

SpecStorage == InitRegistry /\ [][NextStorage]_vars

\* Auto-reply: messages of two senders arrive at any time, each handled by a
\* call of handleAutoReply of its own; the operator turns auto-reply on and
\* off.
Senders == {"u1", "u2"}

InitReply ==
  /\ variant = "pairing"
  /\ NewAccount
  /\ NoManager
  /\ EmptyTable
  /\ NotMerged
  /\ NoLinkFiles
  /\ extracted = NoExtract
  /\ shown = NoView
  /\ wa = NoWa
  /\ ar \in {ArStart(e) : e \in BOOLEAN}
  /\ reg = NoReg

NextReply ==
  \/ ArToggle
  \/ \E u \in Senders, g \in BOOLEAN, t \in MsgTexts : ArCall(u, g, t)
  \/ \E c \in ArCalls, rules \in RuleLists : ArRules(c, rules)
  \/ \E c \in ArCalls : ArDelayOver(c)
  \/ \E c \in ArCalls : ArTyped(c)
  \/ \E c \in ArCalls : ArPressed(c)
  \/ \E c \in ArCalls : ArThrows(c)

SpecReply == InitReply /\ [][NextReply]_vars

\* extractLinks as a function: any text of up to MaxText characters, or a
\* value that is no string, extracted once and once again
InitExtract ==
  /\ variant = "pairing"
  /\ NewAccount
  /\ NoManager
  /\ EmptyTable
  /\ NotMerged
  /\ NoLinkFiles
  /\ extracted \in {[text |-> t, n |-> 0, out |-> <<>>] :
                      t \in {Null} \cup {Str(c) : c \in Arrays(TextChars, MaxText)}}
  /\ shown = NoView
  /\ wa = NoWa
  /\ ar = NoAr
  /\ reg = NoReg

NextExtract == Extract

SpecExtract == InitExtract /\ [][NextExtract]_vars

----------------------------------------------------------------------------
(* The claims. *)

\* a connect call made in this step that the operator did not make
AutoStart ==
  /\ Len(calls') = Len(calls) + 1
  /\ calls'[Len(calls')] # 0

\* a reconnect timer set in this step
TimerSet == \E s \in SockIds : socks[s].timer < 0 /\ socks'[s].timer >= 0

\* socket s receives its 'open' update in this step
Opens(s) == socks[s].st = "connecting" /\ socks'[s].st = "open"

\* socket s receives its close update in this step
Closes(s) == Live(s) /\ socks'[s].st = "closed"

\* C1: at most one live connection per account: no two sockets that are
\* connecting or open (their handlers attached) exist together, whatever connect
\* calls, close events and reconnect timers there were.
C1_AtMostOneLiveConnection == Cardinality({s \in SockIds : Live(s)}) <= 1

\* C2: for one account at most one queue pass is in progress at any time and
\* never two provider join calls are in flight together.
C2_OnePassAtATime == Cardinality(Running) <= 1 /\ Cardinality(InJoin) <= 1

\* the links that have an outcome entry in the persisted report
Reported ==
  {reportFile.joined[j].link : j \in DOMAIN reportFile.joined}
    \cup {reportFile.pending[j].link : j \in DOMAIN reportFile.pending}
    \cup {reportFile.failed[j].link : j \in DOMAIN reportFile.failed}

\* C3: every link that was enqueued is still in the persisted queue or has an
\* outcome entry in the persisted report.
C3_NoLinkLost == \A l \in hist.enqueued : l \in Range(queueFile) \/ l \in Reported

\* C4: on one socket (one connection attempt) requestPairingCode is called at
\* most once.
C4_OneRequestPerAttempt == \A s \in SockIds : socks[s].reqs # "more"

\* C5: after a logged-out close, and until the operator connects again, no
\* reconnect is scheduled, none is started automatically, and the account
\* stays not connected.
C5_LoggedOutIsTerminal ==
  [][hist.loggedOutClose /\ hist'.loggedOutClose
       => ~AutoStart /\ ~TimerSet /\ ~connected']_vars

\* the connect call made in this step comes from the close handler of socket s
StartsFrom(s) ==
  /\ Len(calls') = Len(calls) + 1
  /\ calls'[Len(calls')] = s

C7_LogoutReleases ==
  [][logoutOn # 0 /\ logoutOn' = 0 => sock' = 0 /\ ~connected']_vars

\* C8: once logout() has released the connection, no socket is made any more
\* (pending timers start nothing, connect calls are rejected) and the account
\* is never connected again.
C8_NoConnectAfterLogout ==
  [][hist.loggedOut => Len(socks') = Len(socks) /\ ~connected']_vars

\* C9: the account becomes connected only from CONNECTING: never from INIT, and
\* never after a close without a connect call or a new socket in between.
C9_OpenOnlyFromConnecting ==
  [][~connected /\ connected' => hist.phase = "CONNECTING"]_vars

Unverifiable(text) ==
  /\ text.kind = "json"
  /\ text.enc
  /\ encryptionKey = "none" \/ text.sealedBy # encryptionKey

\* the envelope a text persists: that of the object it was sealed from if it is
\* ciphertext, else that of the object it parses to; NullState if it is no JSON
Persisted(text) ==
  LET d == IF text.enc THEN text.inner ELSE text.doc
  IN  IF text.kind # "json" THEN NullState
      ELSE IF d.state # NullState THEN d.state ELSE d.top

\* the three ids are present in envelope e
HasIds(e) == e.creds /\ IdNames \subseteq e.ids

\* loadAuthState reads the session file in this step; it returns in this step
LoadReads ==
  /\ tasks[0].op = "load"
  /\ tasks[0].pc = "read"
  /\ tasks'[0].op = "load"
  /\ tasks'[0].pc # "read"

LoadReturns ==
  /\ tasks[0].op = "load"
  /\ tasks[0].pc = "return"
  /\ tasks'[0] = NoTask
  /\ result'.op = "load"

\* the writeFile of loadAuthState's own saveSessionToFile completes in this step
LoadSaves == tasks[0].op = "load" /\ tasks[0].pc = "fill" /\ tasks'[0].pc = "count"

\* C11: loadAuthState returns an envelope with the three ids. Where the session
\* file persists such an envelope (ciphertext that cannot be verified apart,
\* which is the matter of C12), that one becomes the state and none is made;
\* otherwise a new envelope is made, which loadAuthState writes to the session
\* file before it goes on to return. An envelope stored without one of the ids
\* is never the one returned.
C11_LoadReturnsValid ==
  [][/\ LoadReads /\ ~Unverifiable(sessionFile)
          => IF HasIds(Persisted(sessionFile))
             THEN state' = Persisted(sessionFile) /\ made' = made
             ELSE state' = NewEnvelope /\ made' = made + 1
     /\ LoadSaves
          => /\ state = [NewEnvelope EXCEPT !.gen = made]
             /\ Persisted(sessionFile') = state
     /\ LoadReturns
          => /\ HasIds(state)
             /\ state.who # "bare"
             /\ state'= state]_vars

\* loadAuthState has returned a new envelope and the session file holds it
C11_Witness ==
  /\ result.op = "load"
  /\ state.who = "new"
  /\ HasIds(state)
  /\ Persisted(sessionFile) = state

\* C12: when the session file holds ciphertext and the manager has no key or
\* the tag does not verify under its key, loadAuthState goes on (it does not
\* raise) with a newly made envelope, and what it returns is never the content
\* that failed verification.
C12_UnverifiedNeverReturned ==
  [][/\ LoadReads /\ Unverifiable(sessionFile)
          => state' = NewEnvelope /\ made' = made + 1
     /\ LoadReturns => state.who # "unverified"]_vars

\* clearAuthState renames the session file in this step; it returns true in
\* this step; the latest call that returned is a clearAuthState that returned
\* true and the operator has made no call since
ClearRenames ==
  /\ tasks[0].op = "clear"
  /\ tasks[0].pc = "rename"
  /\ tasks'[0].op = "clear"
  /\ tasks'[0].pc = "done"

ClearReturns ==
  /\ tasks[0].op = "clear"
  /\ tasks[0].pc = "done"
  /\ result' = [op |-> "clear", ok |-> TRUE]

Cleared == result = [op |-> "clear", ok |-> TRUE] /\ tasks[0] = NoTask

\* C13: clearAuthState moves the session file to an archive path with its
\* content; when it returns true there is no file at the session path and the
\* state is null; that stays so until the operator's next call, also when an
\* auto-save timer fires; and the next loadAuthState makes a new envelope.
C13_ClearArchives ==
  [][/\ ClearRenames
          => /\ sessionFile' = Absent
             /\ archives' = Append(archives, sessionFile)
     /\ ClearReturns => sessionFile' = Absent /\ state' = NullState
     /\ Cleared /\ tasks'[0] = NoTask
          => sessionFile' = Absent /\ state' = NullState
     /\ Cleared /\ tasks'[0].op = "load" => tasks'[0].pc = "read"
     /\ LoadReads /\ result = [op |-> "clear", ok |-> TRUE]
          => state' = NewEnvelope]_vars

\* the process dies in this step
Dies ==
  /\ \E i \in Slots : tasks[i] # NoTask
  /\ \A i \in Slots : tasks'[i] = NoTask
  /\ state' = NullState
  /\ created' = -1
  /\ autoSaves' = 0
  /\ result' = NoResult

\* the createBackup of the call in slot i, its cleanup included, returns in
\* this step
BackupCompletes(i) ==
  /\ tasks[i].pc \in {"list", "unlink"}
  /\ tasks'[i].pc \notin {"list", "unlink"}
  /\ ~Dies

\* C14: whenever a createBackup returns, the backup directory holds at most
\* maxBackups backups; a backup is deleted only while it is the oldest there
\* is, so those kept are the most recent.
C14_TenNewestBackups ==
  [][/\ \A i \in Slots : BackupCompletes(i) => Cardinality(backups') <= maxBackups
     /\ \A b \in backups \ backups' : b = Min(backups)]_vars

\* the saveSessionToFile in slot i has its count back from getSaveCount in this
\* step; the call in slot i is through the copying of its createBackup
SaveCounts(i) == tasks[i].pc = "bump" /\ tasks'[i].pc # "bump" /\ ~Dies

BackupCopies(i) == tasks[i].pc = "copy" /\ tasks'[i].pc # "copy" /\ ~Dies

\* saveSessionToFile is called in this step, by an event or by a timer
SaveCalled ==
  /\ ops' > ops \/ autoSaves' < autoSaves
  /\ tasks'[0] = tasks[0]
  /\ ~Dies

\* a save goes on to createBackup exactly when the count it has written is a
\* multiple of BACKUP_EVERY; a save without state writes nothing, leaves the
\* count and starts nothing
SaveBacksUpOnTenth ==
  /\ \A i \in Slots :
       SaveCounts(i)
         => (tasks'[i].pc = "copy" /\ ~tasks'[i].final
               <=> saveCount' % BACKUP_EVERY = 0)
  /\ SaveCalled /\ state = NullState
       => UNCHANGED <<sessionFile, saveCount, backups, archives, tasks>>

ValidReturns == result'.op = "valid" /\ result' # result

\* the age of the envelope in seconds, where it has a creation time
Age == now - created

\* C16: hasValidSession returns false whenever the creation time lies more
\* than 30 days before now, and with state, session file and an age of at most
\* 30 days it returns what validateSessionStructure says of the state.
C16_StaleAfterThirtyDays ==
  [][ValidReturns
       => /\ created # -1 /\ Age > MAX_AGE_DAYS * DAY => ~result'.ok
          /\ (/\ state # NullState
              /\ sessionFile.kind # "absent"
              /\ created # -1
              /\ Age <= MAX_AGE_DAYS * DAY)
               => result'.ok = HasIds(state)]_vars

\* hasValidSession has returned false for a loaded envelope with the three
\* ids whose file exists and whose age is a second more than 30 days
C16_Witness ==
  /\ result = [op |-> "valid", ok |-> FALSE]
  /\ HasIds(state)
  /\ sessionFile.kind = "json"
  /\ created # -1
  /\ Age = MAX_AGE_DAYS * DAY + 1

\* hasValidSession has returned true at an age of 30 days to the second
C16_AtThirtyDays ==
  /\ result = [op |-> "valid", ok |-> TRUE]
  /\ created # -1
  /\ Age = MAX_AGE_DAYS * DAY

\* C17: whatever saves run together and wherever the process dies, the
\* session file is never left half-written: while no writeFile is at work on
\* it, it holds a complete content (or there is no file).
C17_SaveIsAtomic ==
  (\A i \in Slots : tasks[i].pc # "fill") => sessionFile.kind # "partial"

\* pass p calls groupAcceptInvite in this step: it comes to await the join of
\* an item
JoinCalled(p) ==
  /\ passes'[p].pc = "join"
  /\ passes[p].pc # "join" \/ passes'[p].i # passes[p].i

\* C18: groupAcceptInvite is called only while the connection is open: the
\* socket the pass calls it on is open and the account is connected.
C18_JoinOnlyWhileOpen ==
  [][\A p \in SockIds :
       JoinCalled(p) => socks'[passes'[p].h].st = "open" /\ connected']_vars

\* pass p makes one synchronous run of its loop in this step: from its call,
\* or from the end of a delay, to the next join or to its end
PassRuns(p) ==
  /\ passes[p].pc \in {"idle", "delay"}
  /\ passes'[p].pc \in {"join", "done"}

\* the links of that run, the item it starts with and the item it stops
\* before, the report it starts from and the report it leaves
RunLinks(p) == IF passes[p].pc = "idle" THEN queueFile ELSE passes[p].links

RunFrom(p) == IF passes[p].pc = "idle" THEN 1 ELSE passes[p].i + 1

RunUpTo(p) ==
  IF passes'[p].pc = "join" THEN passes'[p].i ELSE Len(RunLinks(p)) + 1

RunBefore(p) == IF passes[p].pc = "idle" THEN reportFile ELSE passes[p].report

RunAfter(p) == IF passes'[p].pc = "join" THEN passes'[p].report ELSE reportFile'

\* one failed entry with the given reason for each of the items i..j-1
RECURSIVE FailedEntries(_, _, _, _)
FailedEntries(links, i, j, reason) ==
  IF i >= j THEN <<>>
  ELSE <<Entry(links[i], reason)>> \o FailedEntries(links, i + 1, j, reason)

\* links of the form of an invite URL: the host text and a code of one or two
\* characters, with or without text before and after
WellFormedLinks ==
  LET codes == {<<c>> : c \in CodeChars} \cup {<<c, d>> : c \in CodeChars, d \in CodeChars}
      ends == {<<>>, <<"x">>}
  IN  {pre \o <<"H">> \o code \o post : pre \in ends, code \in codes, post \in ends}

\* links of the form of an invite URL have a code, links without path segment
\* or without host text have none
CodeExtracted ==
  /\ \A l \in WellFormedLinks : extractInviteCode(l) # NoCode
  /\ extractInviteCode(NoPathLink) = NoCode
  /\ extractInviteCode(NotALink) = NoCode

\* the items a run of the loop passes without a join call are those without
\* invite code, the item it stops at to join has one, and for each item passed
\* the run leaves one entry in failed with the given reason, in the order of
\* the items, and nothing in joined or pending; it ends at a join or at the
\* end of the pass, not in a delay.
FailsAtOnce(reason) ==
  /\ \A p \in SockIds :
       PassRuns(p) =>
         /\ \A j \in RunFrom(p)..(RunUpTo(p) - 1) :
              extractInviteCode(RunLinks(p)[j]) = NoCode
         /\ passes'[p].pc = "join"
              => extractInviteCode(RunLinks(p)[RunUpTo(p)]) # NoCode
         /\ RunFrom(p) < RunUpTo(p)
              => /\ RunAfter(p).failed =
                      RunBefore(p).failed
                        \o FailedEntries(RunLinks(p), RunFrom(p), RunUpTo(p), reason)
                 /\ RunAfter(p).joined = RunBefore(p).joined
                 /\ RunAfter(p).pending = RunBefore(p).pending
                 /\ reportFile' = RunAfter(p)
  /\ CodeExtracted

JoinSettled(p) == passes[p].pc = "join" /\ passes'[p].pc = "delay"

\* the item pass p is at
Item(p) == passes[p].links[passes[p].i]

\* C20: an item with invite code gets its join call, and when that settles the
\* pass appends one entry for the item and no other: to joined, with the
\* group id, when the call resolved, to pending, with the reason, when it
\* threw; failed stays as it is; the report is saved. The pass then goes on to
\* later items only, so within a pass no item gets a second entry.
C20_OneEntryPerJoin ==
  [][\A p \in SockIds :
       /\ passes[p].pc = "join" => extractInviteCode(Item(p)) # NoCode
       /\ JoinSettled(p)
            => /\ passes'[p].i = passes[p].i
               /\ passes'[p].links = passes[p].links
               /\ passes'[p].report.failed = passes[p].report.failed
               /\ \/ /\ passes'[p].report.joined =
                           Append(passes[p].report.joined, Entry(Item(p), "jid"))
                     /\ passes'[p].report.pending = passes[p].report.pending
                  \/ /\ passes'[p].report.pending =
                           Append(passes[p].report.pending,
                                  Entry(Item(p), "Pending approval"))
                     /\ passes'[p].report.joined = passes[p].report.joined
               /\ reportFile' = passes'[p].report
       /\ passes[p].pc = "join" /\ passes'[p].pc \notin {"join", "dead"}
            => JoinSettled(p)
       /\ passes[p].pc = "join" /\ passes'[p].pc = "join"
            => passes'[p] = passes[p]
       /\ passes[p].pc = "delay" /\ passes'[p].pc = "delay"
            => passes'[p].report = passes[p].report /\ passes'[p].i = passes[p].i
       /\ passes[p].pc = "delay" /\ passes'[p].pc = "join"
            => passes'[p].i > passes[p].i]_vars

\* the join of the first item of a pass has resolved: one entry, in joined
C20_Witness ==
  \E p \in SockIds :
    /\ passes[p].pc = "delay"
    /\ passes[p].i = 1
    /\ passes[p].report.joined = <<Entry(Item(p), "jid")>>
    /\ passes[p].report.pending = <<>>
    /\ passes[p].report.failed = <<>>
    /\ reportFile = passes[p].report

\* the join of the first item of a pass has thrown: one entry, in pending
C20_Thrown ==
  \E p \in SockIds :
    /\ passes[p].pc = "delay"
    /\ passes[p].i = 1
    /\ passes[p].report.pending = <<Entry(Item(p), "Pending approval")>>
    /\ passes[p].report.joined = <<>>
    /\ passes[p].report.failed = <<>>

----------------------------------------------------------------------------
(* The pace of the join calls and the passes as wholes. *)

\* pass p has made a join call that is not yet a full delay behind: the call
\* has not settled, or delay(JOIN_DELAY) after it is still running
JoinRecent(p) ==
  \/ passes[p].pc = "join"
  \/ passes[p].pc = "delay" /\ passes[p].wait > 0

\* C21: between two successive join calls of the account lies the full delay:
\* when a pass calls groupAcceptInvite, every join call the account made before
\* has settled and the 2 minutes after it are over; and when a join call
\* settles the report with its outcome is in the file as the delay starts.
C21_JoinCallsSpaced ==
  [][\A p \in SockIds :
       /\ JoinCalled(p) => \A q \in SockIds : ~JoinRecent(q)
       /\ JoinSettled(p) => /\ reportFile' = passes'[p].report
                            /\ passes'[p].wait = JOIN_DELAY]_vars

\* the same within one pass: its next join call comes when its own delay is
\* over, and the report was saved before the delay
C21_SpacedWithinPass ==
  [][\A p \in SockIds :
       /\ JoinCalled(p) => ~JoinRecent(p)
       /\ JoinSettled(p) => /\ reportFile' = passes'[p].report
                            /\ passes'[p].wait = JOIN_DELAY]_vars

\* pass p completes in this step: its loop ends and the queue file is written
PassCompletes(p) ==
  /\ passes[p].pc \in {"idle", "delay"}
  /\ passes'[p].pc = "done"

\* the report that pass loaded when it started
PassStart(p) == IF passes[p].pc = "idle" THEN reportFile ELSE passes[p].start

IsPrefix(s, t) == Len(s) <= Len(t) /\ SubSeq(t, 1, Len(s)) = s

\* the entries report r1 has beyond report r0, list by list
Gained(r0, r1) ==
  SubSeq(r1.joined, Len(r0.joined) + 1, Len(r1.joined))
    \o SubSeq(r1.pending, Len(r0.pending) + 1, Len(r1.pending))
    \o SubSeq(r1.failed, Len(r0.failed) + 1, Len(r1.failed))

\* report r1 is report r0 with exactly one entry more for each item of links
OneEntryPerItem(links, r0, r1) ==
  /\ IsPrefix(r0.joined, r1.joined)
  /\ IsPrefix(r0.pending, r1.pending)
  /\ IsPrefix(r0.failed, r1.failed)
  /\ LET g == Gained(r0, r1)
     IN  /\ Len(g) = Len(links)
         /\ \A l \in Range(links) :
              Cardinality({k \in DOMAIN g : g[k].link = l})
                = Cardinality({k \in DOMAIN links : links[k] = l})

\* C22: when a pass over a non-empty queue completes, the queue file is empty
\* and the report file holds the report the pass started from with exactly one
\* entry more for each item the queue had at the start of the pass.
C22_PassCompletes ==
  [][\A p \in SockIds :
       PassCompletes(p)
         => /\ queueFile' = <<>>
            /\ OneEntryPerItem(RunLinks(p), PassStart(p), reportFile')]_vars

\* the same for a pass that runs from its call to its end in one go: a queue
\* of items without invite code
C22_PassInOneRun ==
  [][\A p \in SockIds :
       PassCompletes(p) /\ passes[p].pc = "idle"
         => /\ queueFile' = <<>>
            /\ OneEntryPerItem(queueFile, reportFile, reportFile')]_vars

\* processGroupQueue is called for pass p in this step
PassCalled(p) == passes[p].pc = "idle" /\ passes'[p].pc \notin {"idle", "dead"}

\* C23: processGroupQueue called on an empty queue returns before its loop: it
\* makes no join call, then or later, and leaves the report file and the queue
\* file as they are.
C23_EmptyQueueNoEffect ==
  [][\A p \in SockIds :
       /\ PassCalled(p) /\ queueFile = <<>>
            => /\ passes'[p].pc = "skipped"
               /\ ~JoinCalled(p)
               /\ reportFile' = reportFile
               /\ queueFile' = queueFile
       /\ passes[p].pc = "skipped" => passes'[p].pc \in {"skipped", "dead"}]_vars

\* a pass was called on a socket with the queue empty and returned at once,
\* the report file holding entries of an earlier pass
C23_Witness ==
  \E p \in SockIds :
    /\ passes[p].pc = "skipped"
    /\ passes[p].h # 0
    /\ queueFile = <<>>
    /\ reportFile # EmptyReport

\* C24: the report lists are append-only: whenever the report file is written,
\* each of its lists joined, pending and failed keeps the entries it had, in
\* their places and unchanged, and at most gains entries behind them.
C24_ReportAppendOnly ==
  [][/\ IsPrefix(reportFile.joined, reportFile'.joined)
     /\ IsPrefix(reportFile.pending, reportFile'.pending)
     /\ IsPrefix(reportFile.failed, reportFile'.failed)]_vars

----------------------------------------------------------------------------
(* The job table. *)

\* expireOldPendingGroups has run in this step
ExpireCalled == dbCall'.op = "expireOldPendingGroups"

\* the job of link l is pending and older than the timeout of the call made in
\* this step, at the time the call read
Overdue(l) ==
  /\ RowAt(groups, l).status = "pending"
  /\ dbCall'.now - RowAt(groups, l).requested_at > dbCall'.timeoutMs

\* C25: expireOldPendingGroups(timeoutMs) sets to expired exactly the jobs that
\* are pending and whose age, now - requested_at, is greater than timeoutMs;
\* every other job, in any other status or pending and not older than the
\* timeout, keeps its status and its row.
C25_ExpiresOverduePending ==
  [][ExpireCalled
       => \A l \in Links :
            /\ Overdue(l)
                 => RowAt(groups', l) = [groups[l] EXCEPT !.status = "expired",
                                                       !.last_update = dbCall'.now]
            /\ ~Overdue(l) => RowAt(groups', l) = RowAt(groups, l)]_vars

\* an expiry has just set one job to expired and left a pending job whose age
\* is the timeout
C25_Witness ==
  /\ dbCall.op = "expireOldPendingGroups"
  /\ \E l, k \in Links :
       /\ RowAt(groups, l).status = "expired"
       /\ RowAt(groups, l).last_update = dbCall.now
       /\ RowAt(groups, k).status = "pending"
       /\ dbCall.now - RowAt(groups, k).requested_at = dbCall.timeoutMs

\* the statuses the claim calls terminal
Terminal == {"joined", "failed", "expired"}

\* C26: the status of a job never leaves a terminal state: once a job is
\* joined, failed or expired no call changes its status or anything else of
\* its row.
C26_TerminalStays ==
  [][\A l \in Links :
       RowAt(groups, l).status \in Terminal => RowAt(groups', l) = RowAt(groups, l)]_vars

\* a job that was expired is joined
C26_Revived ==
  \E l \in DOMAIN groups :
    groups[l].status = "joined" /\ groups[l].joined_at > groups[l].requested_at

----------------------------------------------------------------------------
(* uniqueLinks and the link files. *)

\* text t is text s without the white space at its ends
IsTrimOf(t, s) ==
  \E i \in 1..Len(s) + 1, j \in 0..Len(s) :
    /\ t = SubSeq(s, i, j)
    /\ \A k \in 1..Len(s) : k < i \/ k > j => s[k] = " "
    /\ t # <<>> => t[1] # " " /\ t[Len(t)] # " "

\* x is the trimmed form of a string element of array I that is not empty
TrimmedStringOf(x, I) ==
  \E y \in Range(I) :
    /\ y.type = "string"
    /\ y.chars # <<>>
    /\ x.type = "string"
    /\ IsTrimOf(x.chars, y.chars)

NoElementTwice(array) ==
  \A i, j \in DOMAIN array : i # j => array[i] # array[j]

\* array out holds every element of E, none twice, and nothing but elements of
\* E and trimmed non-empty strings of I
MergeOf(out, E, I) ==
  /\ Range(E) \subseteq Range(out)
  /\ NoElementTwice(out)
  /\ \A x \in Range(out) : x \in Range(E) \/ TrimmedStringOf(x, I)

\* C27: uniqueLinks(E, I) contains every element of E, no element twice and
\* nothing other than elements of E and the non-empty string elements of I,
\* trimmed; merging the same batch into the result again returns the result.
C27_UniqueLinks ==
  [][/\ merged'.n >= 1 => MergeOf(merged'.out, existing', incoming')
     /\ merged.n = 1 /\ merged'.n = 2 => merged'.out = merged.out]_vars

\* merged twice: a batch with an untrimmed string whose trimmed form the
\* existing list holds, the existing list holding an element twice
C27_Witness ==
  /\ merged.n = 2
  /\ ~NoElementTwice(existing)
  /\ \E x \in Range(incoming), e \in Range(existing) :
       /\ e # x
       /\ TrimmedStringOf(e, <<x>>)
  /\ Len(merged.out) < Len(existing)

\* the file of account a for the category the latest call found for its link i
FileOf(i) == FileAt(linkFiles', <<saved'.accountId, saved'.types[i]>>)

\* the categories the batch of the latest call hit
TypesHit == Range(saved'.types)

\* C28: after saveLinks(accountId, urls) has returned, every non-empty string
\* URL of the batch is, trimmed, in the file of its category for that account,
\* every entry the files of the account had is still there, and the files of
\* other accounts and of categories the batch did not hit are as they were.
C28_SaveLinks ==
  [][/\ \A i \in DOMAIN saved'.links :
          saved'.links[i].type = "string" /\ saved'.links[i].chars # <<>>
            => \E x \in Range(FileOf(i).links) : TrimmedStringOf(x, <<saved'.links[i]>>)
     /\ \A f \in LinkFileNames :
          Range(FileAt(linkFiles, f).links) \subseteq Range(FileAt(linkFiles', f).links)
     /\ \A f \in LinkFileNames :
          f[1] # saved'.accountId \/ f[2] \notin TypesHit
            => FileAt(linkFiles', f) = FileAt(linkFiles, f)]_vars

\* the second and third part of it: what was in the files stays, the files of
\* other accounts and other categories stay as they are
C28_Frame ==
  [][/\ \A f \in LinkFileNames :
          Range(FileAt(linkFiles, f).links) \subseteq Range(FileAt(linkFiles', f).links)
     /\ \A f \in LinkFileNames :
          f[1] # saved'.accountId \/ f[2] \notin TypesHit
            => FileAt(linkFiles', f) = FileAt(linkFiles, f)]_vars

KnownDomain(link) ==
  link.type = "string" /\ \E k \in DOMAIN link.chars : link.chars[k] \in {"w", "t"}

C28_SavedWhereParsable ==
  [][\A i \in DOMAIN saved'.links :
       /\ saved'.links[i].type = "string"
       /\ saved'.links[i].chars # <<>>
       /\ FileOf(i).st # "corrupt"
       => \E x \in Range(FileOf(i).links) : TrimmedStringOf(x, <<saved'.links[i]>>)]_vars

----------------------------------------------------------------------------
(* extractLinks and the view of the links. *)

\* position i of the text starts a URL: a scheme followed by a character that
\* is no white space, with no scheme before it in the same run of such
\* characters
UrlStart(chars, i) ==
  /\ i < Len(chars)
  /\ chars[i] \in {"p", "q", "P"}
  /\ chars[i + 1] # " "
  /\ ~\E k \in 1..i - 1 :
        chars[k] \in {"p", "q", "P"} /\ \A m \in k..i : chars[m] # " "

\* the URL that starts at position i reaches up to the next white space or to
\* the end of the text
UrlAt(chars, i) ==
  LET j == CHOOSE e \in i + 1..Len(chars) :
             /\ \A m \in i + 1..e : chars[m] # " "
             /\ e = Len(chars) \/ chars[e + 1] = " "
  IN  SubSeq(chars, i, j)

\* array out holds the URLs of the text in the order of their places
UrlsOf(out, chars) ==
  LET starts == {i \in DOMAIN chars : UrlStart(chars, i)}
  IN  /\ Len(out) = Cardinality(starts)
      /\ \A i \in starts :
           out[Cardinality({k \in starts : k <= i})] = UrlAt(chars, i)

\* C31: extractLinks(text) returns the empty array for an empty text and for
\* a value that is no string, and otherwise the maximal substrings that start
\* with the scheme (in small or capital letters) and run on, by one character
\* at least, up to the next white space, in the order of their places; a
\* second call with the same text returns the same.
C31_ExtractLinks ==
  [][/\ extracted'.n >= 1
          => IF extracted'.text.type # "string" \/ extracted'.text.chars = <<>>
             THEN extracted'.out = <<>>
             ELSE UrlsOf(extracted'.out, extracted'.text.chars)
     /\ extracted.n = 1 /\ extracted'.n = 2 => extracted'.out = extracted.out]_vars

\* a text with two URLs between other words has been extracted twice
C31_Witness ==
  /\ extracted.n = 2
  /\ extracted.text = Str(<<"p", "a", " ", "q", "a">>)
  /\ extracted.out = <<<<"p", "a">>, <<"q", "a">>>>

\* the number of links in the files named in names
RECURSIVE LinksIn(_, _)
LinksIn(files, names) ==
  IF names = {} THEN 0
  ELSE LET f == CHOOSE g \in names : TRUE
       IN  Len(files[f].links) + LinksIn(files, names \ {f})

Paired ==
  /\ \E s \in SockIds : socks[s].reg # -1
  /\ ~hist.loggedOutClose
  /\ ~hist.loggedOut

\* requestPairingCode is called on socket h in this step
PairingRequestedOn(h) ==
  /\ h \in SockIds
  /\ socks'[h].st # "gone"
  /\ socks'[h].reqs # socks[h].reqs

\* C35: connectWithPairing requests a pairing code only when the account has
\* no valid stored credential: once the account has been paired (it has
\* reached 'open', so its credentials are stored, and it has not been logged
\* out since), no connection of it calls requestPairingCode.
C35_NoPairingWhenPaired ==
  [][variant = "pairing" /\ Paired => \A h \in SockIds : ~PairingRequestedOn(h)]_vars

\* pass p takes a step of its own: it is called, a join settles or a delay ends
PassSteps(p) ==
  /\ passes'[p].pc # passes[p].pc
  /\ passes[p].pc \in {"idle", "join", "delay"}
  /\ passes'[p].pc \in {"join", "delay", "done"}

\* the number of items whose outcome pass p has recorded, before and after
\* the step
DoneBefore(p) ==
  IF passes[p].pc = "idle" THEN 0
  ELSE IF passes[p].pc = "join" THEN passes[p].i - 1 ELSE passes[p].i

DoneAfter(p) ==
  IF passes'[p].pc = "join" THEN passes'[p].i - 1
  ELSE IF passes'[p].pc = "delay" THEN passes'[p].i ELSE Len(RunLinks(p))

\* the report pass p holds before the step and the one it holds after it; a
\* pass that ends has saved its report unless no item was left to record
HeldBefore(p) == IF passes[p].pc = "idle" THEN reportFile ELSE passes[p].report

HeldAfter(p) ==
  IF passes'[p].pc # "done" THEN passes'[p].report
  ELSE IF DoneBefore(p) = Len(RunLinks(p)) THEN HeldBefore(p) ELSE reportFile'

\* C34: within one pass the items are processed in queue order, each once:
\* every step of a pass records the outcomes of the items that follow the ones
\* it has recorded already, one entry each and in their order, the report file
\* holds them before the next item's join is called, and so a link standing k
\* times in the queue gets k entries.
C34_InQueueOrder ==
  [][\A p \in SockIds :
       PassSteps(p)
         => LET links == RunLinks(p)
                before == DoneBefore(p)
                after == DoneAfter(p)
                held == HeldAfter(p)
                g == Gained(HeldBefore(p), held)
            IN  /\ after >= before
                /\ after <= Len(links)
                /\ Len(g) = after - before
                /\ \A k \in DOMAIN g : g[k].link = links[before + k]
                /\ g # <<>> => reportFile' = held
                /\ passes'[p].pc = "join" => passes'[p].i = after + 1
                /\ passes'[p].pc = "done" => after = Len(links)]_vars

\* a pass over a queue that holds the same link twice has recorded an outcome
\* for each of the two
C34_Witness ==
  \E p \in SockIds :
    /\ passes[p].pc = "delay"
    /\ passes[p].i = 2
    /\ passes[p].links[1] = passes[p].links[2]
    /\ LET g == Gained(passes[p].start, passes[p].report)
       IN  Len(g) = 2 /\ g[1].link = g[2].link

\* a socket of connectWhatsApp gets its close update in this step
WaClosed == \E s \in WaSockIds : wa.socks[s] # "closed" /\ wa'.socks[s] = "closed"

\* C36: in connectWhatsApp a close whose reason is logged-out is terminal: the
\* step that handles it starts no call of connectWhatsApp, so no reconnect
\* follows from it; only a close with another reason starts one.
C36_LoggedOutTerminal ==
  [][WaClosed /\ wa'.lastClose = "loggedOut" => wa'.calls = wa.calls]_vars

\* the envelope a session file holds, as the manager reads it
FileEnvelope(text) ==
  LET d == IF text.enc THEN text.inner ELSE text.doc
  IN  IF d.state # NullState THEN d.state ELSE d.top

\* an envelope with creds and the three ids
StructurallyValid(e) == e.creds /\ IdNames \subseteq e.ids

\* C37: after any sequence of loadAuthState, switchSession, updateUserInfo,
\* saveSessionToFile and clearAuthState the envelope in this.state is null or
\* structurally valid, and so is the envelope of a session file that holds
\* one; a switchSession to a file whose envelope fails validation therefore
\* neither installs nor persists it.
C37_EnvelopeValid ==
  /\ state = NullState \/ StructurallyValid(state)
  /\ sessionFile.kind = "json" => StructurallyValid(FileEnvelope(sessionFile))

\* the replies sent so far for the messages of private sender u
PrivateReplies(u) ==
  {k \in DOMAIN ar.sent :
     /\ ar.calls[ar.sent[k].call].senderId = u
     /\ ~ar.calls[ar.sent[k].call].isGroup}

\* rule i of the rules the call got is the first one its text matches
IsFirstMatch(c, i) ==
  /\ matchRule(ar.calls[c].text, ar.calls[c].rules[i])
  /\ \A j \in 1..(i - 1) : ~matchRule(ar.calls[c].text, ar.calls[c].rules[j])

\* C40: a private sender gets at most one auto-reply in the life of the
\* process, also when several of its messages are handled at the same time;
\* for one message at most one rule replies, the first that matches; and no
\* reply is sent while auto-reply is off.
C40_OneReplyPerSender ==
  /\ \A u \in Senders : Cardinality(PrivateReplies(u)) <= 1
  /\ \A k, m \in DOMAIN ar.sent : ar.sent[k].call = ar.sent[m].call => k = m
  /\ \A k \in DOMAIN ar.sent :
       /\ IsFirstMatch(ar.sent[k].call, ar.sent[k].rule)
       /\ ar.sent[k].enabled

----------------------------------------------------------------------------
(* Claims on the accounts registry. *)

\* C33: a storage failure inside loadAccounts, saveAccounts, createAccount
\* or another operation on the accounts file is handled inside the
\* operation: no call on the registry ends in an exception.
C33_StorageFailureContained == reg.last.ret # "threw"

\* the ids the accounts file holds
FileIds == Range(ReadIds(reg.file))

\* C38: once removeAccount(id) has returned true, getAccount(id) is null,
\* the id is not in the accounts file, and the connection of the account
\* object of that id does nothing more: no timer is set, no connection
\* attempt is made.
C38_RemovedIsDestroyed ==
  [][\A id \in AccountIds :
       id \in reg.gone /\ id \in reg'.gone
         => /\ reg'.accounts \cap {id} = {}
            /\ id \notin Range(ReadIds(reg'.file))
            /\ reg'.conn[id] = reg.conn[id]]_vars

\* the ids of a list are pairwise distinct
Distinct(ids) == \A i, j \in DOMAIN ids : ids[i] = ids[j] => i = j

\* the call this step makes on the registry
RegCallStep == reg'.calls = reg.calls + 1

\* C39: after restoreLinkedAccounts, whatever createAccount and
\* removeAccount calls follow, the ids of the Map are the ids of the
\* accounts file, the ids of the file are pairwise distinct, and an id
\* leaves the file only by removeAccount of that id.
C39_MapMatchesFile ==
  [][/\ reg'.restored
          => /\ reg'.accounts = Range(ReadIds(reg'.file))
             /\ Distinct(ReadIds(reg'.file))
     /\ \A id \in FileIds :
          id \notin Range(ReadIds(reg'.file))
            => reg'.last.op = "removeAccount" /\ reg'.last.id = id /\ RegCallStep]_vars

====
